---- MODULE Spec2Model ----
(***************************************************************************)
(* Model of aws-alb-nlb-auto-heal: the decision engine                     *)
(* (src/decision_engine), the diagnostic score (src/lambda/utils/helpers)  *)
(* and the Lambda handlers (src/lambda): auto_heal, diagnostics,           *)
(* target_monitor, verify and slack_notifier.                              *)
(*                                                                         *)
(* Python dicts are functions whose DOMAIN is the set of keys present, so  *)
(* dict.get(key, default) is modelled with its default.  Scores are        *)
(* floats in the code; every threshold they are compared with is an        *)
(* integer, so x < n holds of a float x exactly when it holds of floor(x)  *)
(* and the model ranges over integers.                                     *)
(***************************************************************************)
EXTENDS Integers, Sequences, FiniteSets, TLC

VARIABLES
    engineIn,       \* arguments of a decision-engine call
    engineOut,      \* the function called and the value it returned
    scoreIn,        \* the diagnostics dict given to calculate_diagnostic_score or
                    \* to _classify_failure
    scoreOut,       \* the function called and the value it returned
    autoHealTable,  \* AUTO_HEAL_TABLE: the action records, oldest first
    configTable,    \* INSTANCE_CONFIG_TABLE: instance id -> item (or no item)
    now,            \* datetime.utcnow(), in minutes
    cycle,          \* per handler slot: the running or last auto-heal invocation
    healthTable,    \* TARGET_HEALTH_TABLE: the health events, oldest first
    monitor,        \* the running or last target-monitor pass over one target
    aggregate,      \* the running or last aggregate check of one target group
    diagnosticsTable,   \* DIAGNOSTICS_TABLE: the stored diagnostics, oldest first
    diag,           \* the running or last diagnostics invocation
    verificationTable,  \* VERIFICATION_TABLE: the stored results, oldest first
    verify,         \* the running or last verify invocation
    slack           \* the running or last slack-notifier invocation

vars == <<engineIn, engineOut, scoreIn, scoreOut, autoHealTable, configTable, now, cycle,
          healthTable, monitor, aggregate, diagnosticsTable, diag, verificationTable, verify, slack>>
engineVars == <<engineIn, engineOut>>
scoreVars == <<scoreIn, scoreOut>>
lifecycleVars == <<autoHealTable, configTable, now, cycle>>
monitorVars == <<healthTable, monitor, aggregate>>
diagnosticsVars == <<diagnosticsTable, diag>>
verifyVars == <<verificationTable, verify, slack>>
handlerVars == <<monitorVars, diagnosticsVars, verifyVars>>

(***************************************************************************)
(* Bounds of the model.                                                    *)
(***************************************************************************)
ScoreMargin == 2    \* engine scores range over -ScoreMargin .. 100+ScoreMargin
MaxAttempts == 3    \* repair_attempts given to the engine: 0 .. MaxAttempts
MaxRecords == 3     \* action records the audit table holds at most
MaxHistory == 11    \* health events the health table holds at most
MaxSamples == 6     \* health events of one target group among them, at most
MaxObserved == 6    \* observations of one target under SpecObserve, at most
MaxTargets == 4     \* targets of a group and the metric's values range over 0 .. MaxTargets
MaxDatapoints == 2  \* datapoints the metric returns for the window, at most
MaxTime == 20       \* the clock stops here (minutes)
TickMinutes == 10   \* minutes the clock advances in one step
UsageMargin == 5    \* cpu/memory values range over 80-UsageMargin .. 90+UsageMargin

(***************************************************************************)
(* Python helpers.                                                         *)
(***************************************************************************)
\* dict.get(k, default)
Get(d, k, default) == IF k \in DOMAIN d THEN d[k] ELSE default

\* the built-in min / max of two numbers
Min(a, b) == IF b < a THEN b ELSE a
Max(a, b) == IF b > a THEN b ELSE a

EmptyDict == [k \in {} |-> FALSE]

\* no function has been called yet
NoCall == [fn |-> "none"]

\* the variables a specification does not use stay as they are here
EngineIdle == engineIn = EmptyDict /\ engineOut = NoCall
ScoreIdle == scoreIn = EmptyDict /\ scoreOut = NoCall

(***************************************************************************)
(* src/decision_engine/repair_priority.py                                  *)
(***************************************************************************)
CRITICAL == 1
HIGH == 2
MEDIUM == 3
LOW == 4
UNKNOWN == 0

PRIORITY_MAP ==
    [c \in {"Application Failure", "OS-level Failure", "Disk Corruption",
            "Agent Failure", "Resource Bottleneck", "Network Degradation",
            "Unknown State"} |->
        CASE c = "Application Failure" -> CRITICAL
          [] c = "OS-level Failure"    -> CRITICAL
          [] c = "Disk Corruption"     -> CRITICAL
          [] c = "Agent Failure"       -> HIGH
          [] c = "Resource Bottleneck" -> MEDIUM
          [] c = "Network Degradation" -> MEDIUM
          [] c = "Unknown State"       -> UNKNOWN]

\* a bug: the attempts override is taken only above two attempts
calculate_repair_priority_late(classification, diagnostic_score, repair_attempts) ==
    LET base == Get(PRIORITY_MAP, classification, UNKNOWN)
        byScore == IF diagnostic_score < 20 THEN CRITICAL
                   ELSE IF diagnostic_score < 40 THEN Min(base, HIGH)
                   ELSE base
    IN  IF repair_attempts > 2 THEN CRITICAL ELSE byScore

\* a bug: the 20..40 band forces HIGH instead of taking the minimum
calculate_repair_priority_force(classification, diagnostic_score, repair_attempts) ==
    LET base == Get(PRIORITY_MAP, classification, UNKNOWN)
        byScore == IF diagnostic_score < 20 THEN CRITICAL
                   ELSE IF diagnostic_score < 40 THEN HIGH
                   ELSE base
    IN  IF repair_attempts >= 2 THEN CRITICAL ELSE byScore

calculate_repair_priority(classification, diagnostic_score, repair_attempts) ==
    LET base == Get(PRIORITY_MAP, classification, UNKNOWN)
        byScore == IF diagnostic_score < 20 THEN CRITICAL
                   ELSE IF diagnostic_score < 40 THEN Min(base, HIGH)
                   ELSE base
    IN  IF repair_attempts >= 2 THEN CRITICAL ELSE byScore

\* a bug: the classification test is left out
should_skip_repair_noclass(classification, diagnostic_score, instance_config) ==
    IF Get(instance_config, "skip_recovery", FALSE) THEN TRUE
    ELSE diagnostic_score < 10

should_skip_repair(classification, diagnostic_score, instance_config) ==
    IF Get(instance_config, "skip_recovery", FALSE) THEN TRUE
    ELSE IF diagnostic_score < 10 THEN TRUE
    ELSE IF classification \in {"OS-level Failure", "Disk Corruption"} THEN TRUE
    ELSE FALSE

RepairTimeouts ==
    [c \in {"Application Failure", "Resource Bottleneck", "Agent Failure",
            "Network Degradation", "OS-level Failure", "Disk Corruption",
            "Unknown State"} |->
        CASE c = "Application Failure" -> 300
          [] c = "Resource Bottleneck" -> 600
          [] c = "Agent Failure"       -> 900
          [] c = "Network Degradation" -> 600
          [] c = "OS-level Failure"    -> 0
          [] c = "Disk Corruption"     -> 0
          [] c = "Unknown State"       -> 300]

\* a bug: an unlisted label gets no timeout
get_repair_timeout_nodefault(classification) == Get(RepairTimeouts, classification, 0)

get_repair_timeout(classification) == Get(RepairTimeouts, classification, 300)

(***************************************************************************)
(* src/decision_engine/decision_model.py                                   *)
(***************************************************************************)
\* a bug: the attempts test is left out
engine_should_replace_instance_score(diagnostic_score, repair_attempts) ==
    diagnostic_score < 30

engine_should_replace_instance(diagnostic_score, repair_attempts) ==
    IF diagnostic_score < 30 THEN TRUE
    ELSE IF repair_attempts >= 2 THEN TRUE
    ELSE FALSE

SkipReason == "Skipped per configuration or unrecoverable state"
ReplaceReason == "Diagnostic score {score} and {attempts} repair attempts indicate replacement needed"
RepairReason == "Attempting repair for {classification} (score: {score})"

\* the decision dict as decide() first builds it
NewDecision(instance_id) ==
    [instance_id |-> instance_id, action |-> "None", reason |-> "",
     priority |-> 0, timeout_seconds |-> 0, skip |-> FALSE]

\* a bug: a replacement gets the classification's repair timeout
decide_timeout(instance_id, classification, diagnostic_score, repair_attempts, instance_config) ==
    LET decision == NewDecision(instance_id) IN
    IF should_skip_repair(classification, diagnostic_score, instance_config)
    THEN [decision EXCEPT !.skip = TRUE, !.reason = SkipReason]
    ELSE LET priority == calculate_repair_priority(classification, diagnostic_score, repair_attempts)
         IN  IF engine_should_replace_instance(diagnostic_score, repair_attempts)
             THEN [decision EXCEPT !.priority = priority, !.action = "replace",
                                   !.reason = ReplaceReason,
                                   !.timeout_seconds = get_repair_timeout(classification)]
             ELSE [decision EXCEPT !.priority = priority, !.action = "repair",
                                   !.reason = RepairReason,
                                   !.timeout_seconds = get_repair_timeout(classification)]

decide(instance_id, classification, diagnostic_score, repair_attempts, instance_config) ==
    LET decision == NewDecision(instance_id) IN
    IF should_skip_repair(classification, diagnostic_score, instance_config)
    THEN [decision EXCEPT !.skip = TRUE, !.reason = SkipReason]
    ELSE LET priority == calculate_repair_priority(classification, diagnostic_score, repair_attempts)
         IN  IF engine_should_replace_instance(diagnostic_score, repair_attempts)
             THEN [decision EXCEPT !.priority = priority, !.action = "replace",
                                   !.reason = ReplaceReason,
                                   !.timeout_seconds = 1800]
             ELSE [decision EXCEPT !.priority = priority, !.action = "repair",
                                   !.reason = RepairReason,
                                   !.timeout_seconds = get_repair_timeout(classification)]

make_decision(instance_id, classification, diagnostic_score, repair_attempts, instance_config) ==
    decide(instance_id, classification, diagnostic_score, repair_attempts, instance_config)

(***************************************************************************)
(* src/lambda/utils/helpers.py                                             *)
(***************************************************************************)
\* a bug: the floor of 0 is left out
calculate_diagnostic_score_nofloor(diagnostics) ==
    LET s0 == 100
        s1 == IF Get(diagnostics, "application_failure", FALSE) THEN s0 - 40 ELSE s0
        cpu_usage == Get(diagnostics, "cpu_usage", 0)
        s2 == IF cpu_usage > 90 THEN s1 - 20
              ELSE IF cpu_usage > 80 THEN s1 - 10 ELSE s1
        memory_usage == Get(diagnostics, "memory_usage", 0)
        s3 == IF memory_usage > 90 THEN s2 - 20
              ELSE IF memory_usage > 80 THEN s2 - 10 ELSE s2
        s4 == IF Get(diagnostics, "disk_corruption", FALSE) THEN s3 - 30 ELSE s3
        s5 == IF Get(diagnostics, "network_degradation", FALSE) THEN s4 - 15 ELSE s4
        s6 == IF Get(diagnostics, "ssm_agent_failure", FALSE) THEN s5 - 25 ELSE s5
        s7 == IF Get(diagnostics, "cloudwatch_agent_failure", FALSE) THEN s6 - 10 ELSE s6
    IN  s7

\* a bug: the usage thresholds are inclusive
calculate_diagnostic_score_incl(diagnostics) ==
    LET s0 == 100
        s1 == IF Get(diagnostics, "application_failure", FALSE) THEN s0 - 40 ELSE s0
        cpu_usage == Get(diagnostics, "cpu_usage", 0)
        s2 == IF cpu_usage >= 90 THEN s1 - 20
              ELSE IF cpu_usage >= 80 THEN s1 - 10 ELSE s1
        memory_usage == Get(diagnostics, "memory_usage", 0)
        s3 == IF memory_usage >= 90 THEN s2 - 20
              ELSE IF memory_usage >= 80 THEN s2 - 10 ELSE s2
        s4 == IF Get(diagnostics, "disk_corruption", FALSE) THEN s3 - 30 ELSE s3
        s5 == IF Get(diagnostics, "network_degradation", FALSE) THEN s4 - 15 ELSE s4
        s6 == IF Get(diagnostics, "ssm_agent_failure", FALSE) THEN s5 - 25 ELSE s5
        s7 == IF Get(diagnostics, "cloudwatch_agent_failure", FALSE) THEN s6 - 10 ELSE s6
    IN  Max(0, s7)

calculate_diagnostic_score(diagnostics) ==
    LET s0 == 100
        s1 == IF Get(diagnostics, "application_failure", FALSE) THEN s0 - 40 ELSE s0
        cpu_usage == Get(diagnostics, "cpu_usage", 0)
        s2 == IF cpu_usage > 90 THEN s1 - 20
              ELSE IF cpu_usage > 80 THEN s1 - 10 ELSE s1
        memory_usage == Get(diagnostics, "memory_usage", 0)
        s3 == IF memory_usage > 90 THEN s2 - 20
              ELSE IF memory_usage > 80 THEN s2 - 10 ELSE s2
        s4 == IF Get(diagnostics, "disk_corruption", FALSE) THEN s3 - 30 ELSE s3
        s5 == IF Get(diagnostics, "network_degradation", FALSE) THEN s4 - 15 ELSE s4
        s6 == IF Get(diagnostics, "ssm_agent_failure", FALSE) THEN s5 - 25 ELSE s5
        s7 == IF Get(diagnostics, "cloudwatch_agent_failure", FALSE) THEN s6 - 10 ELSE s6
    IN  Max(0, s7)

\* a bug: the handler's copy replaces below a score of 10, not 30
should_replace_instance_low(diagnostic_score, repair_attempts) ==
    IF diagnostic_score < 10 THEN TRUE
    ELSE IF repair_attempts >= 2 THEN TRUE
    ELSE FALSE

\* a bug: the replacement starts at three repair attempts
should_replace_instance_three(diagnostic_score, repair_attempts) ==
    IF diagnostic_score < 30 THEN TRUE
    ELSE IF repair_attempts >= 3 THEN TRUE
    ELSE FALSE

\* the copy of should_replace_instance the auto-heal handler imports
should_replace_instance(diagnostic_score, repair_attempts) ==
    IF diagnostic_score < 30 THEN TRUE
    ELSE IF repair_attempts >= 2 THEN TRUE
    ELSE FALSE

(***************************************************************************)
(* src/lambda/auto_heal/handler.py                                         *)
(*                                                                         *)
(* One invocation of lambda_handler runs in a handler slot, one step per   *)
(* external call; cycle[h].pc is its position.  Every collaborator call    *)
(* either succeeds or raises, the choice being the environment's.  A slot  *)
(* that is done keeps what the invocation did until the next invocation    *)
(* starts in it.                                                           *)
(***************************************************************************)
None == "None"
Falsy(x) == x \in {None, ""}

Handlers == {"h1"}
Instances == {"i-1"}
COOLDOWN_DEFAULT == 15

\* the items INSTANCE_CONFIG_TABLE may hold for an instance ({}: no item)
ConfigItems ==
    {EmptyDict, [k \in {"skip_recovery"} |-> TRUE], [k \in {"cooldown_minutes"} |-> 5]}

\* the events the handler is invoked with: an empty one, direct invocations
\* (fields at the top level) and EventBridge deliveries (fields under detail)
EventScores == {5, 25, 50}
EventClassifications == {"OS-level Failure", "Agent Failure"}
Detail(i, c, sc) ==
    [k \in {"instance_id", "target_group_arn", "classification", "diagnostic_score"} |->
        IF k = "instance_id" THEN i
        ELSE IF k = "target_group_arn" THEN "tg-1"
        ELSE IF k = "classification" THEN c
        ELSE sc]
DirectEvents ==
    { [k \in {"instance_id", "target_group_arn"} \cup D |->
          IF k = "instance_id" THEN i
          ELSE IF k = "target_group_arn" THEN "tg-1"
          ELSE IF k = "classification" THEN c
          ELSE sc] :
        i \in Instances, D \in SUBSET {"classification", "diagnostic_score"},
        c \in EventClassifications, sc \in EventScores }
BridgeEvents ==
    { [k \in {"detail"} |-> Detail(i, c, 25)] : i \in Instances, c \in EventClassifications }
Events == {EmptyDict} \cup DirectEvents \cup BridgeEvents

NoResult == [action |-> None, success |-> FALSE, steps |-> <<>>, error |-> ""]

IdleCycle ==
    [pc |-> "idle", event |-> EmptyDict, instance_id |-> None, target_group_arn |-> "",
     diagnostic_score |-> 100, classification |-> "Unknown State",
     config_read |-> "none", instance_config |-> EmptyDict, cooldown_query |-> "none", in_cooldown |-> FALSE,
     attempts_query |-> "none", repair_attempts |-> 0,
     asg |-> [MinSize |-> 0, DesiredCapacity |-> 0],
     result |-> NoResult, calls |-> <<>>, record_put |-> "none", recorded |-> FALSE,
     verification |-> <<>>, response |-> "none"]

\* the slots of the other handlers before any invocation
\* (target_monitor, diagnostics, verify and slack_notifier)
IdleMonitor ==
    [pc |-> "idle", target_group_arn |-> "", instance_id |-> None,
     state |-> "", reason |-> "", put |-> "none",
     query |-> "none", flapping |-> FALSE, issues |-> <<>>]

IdleDiag ==
    [pc |-> "idle", event |-> EmptyDict, instance_id |-> None, target_group_arn |-> "",
     issue_type |-> "unhealthy_target",
     diagnostics |-> EmptyDict, classification |-> None, diagnostic_score |-> 100,
     calls |-> <<>>, stored |-> FALSE, triggered |-> <<>>, response |-> "none"]

NoChecks == [all_checks_passed |-> FALSE, checks |-> EmptyDict, failed_checks |-> <<>>]

IdleVerify ==
    [pc |-> "idle", event |-> EmptyDict, instance_id |-> None, target_group_arn |-> "",
     action |-> "repair", probes |-> EmptyDict, verification_result |-> NoChecks,
     calls |-> <<>>,
     stored |-> FALSE, notification |-> "none", response |-> "none"]

IdleSlack ==
    [pc |-> "idle", webhook_url |-> "", records |-> <<>>, next |-> 1, posts |-> <<>>,
     response |-> "none"]

IdleAggregate ==
    [pc |-> "idle", read |-> "none", datapoints |-> <<>>, total_targets |-> 0,
     exception |-> "none", issues |-> <<>>]

MonitorIdle == healthTable = <<>> /\ monitor = IdleMonitor /\ aggregate = IdleAggregate
DiagnosticsIdle == diagnosticsTable = <<>> /\ diag = IdleDiag
VerifyIdle == verificationTable = <<>> /\ verify = IdleVerify /\ slack = IdleSlack
HandlersIdle == MonitorIdle /\ DiagnosticsIdle /\ VerifyIdle

_extract_instance_id(event) ==
    IF "instance_id" \in DOMAIN event THEN event["instance_id"]
    ELSE IF "detail" \in DOMAIN event THEN Get(event["detail"], "instance_id", None)
    ELSE None

\* a bug: the queries have no key condition on InstanceId
RecordsOf_anyinstance(table, instance_id) == table

\* the action records of an instance, oldest first
RecordsOf(table, instance_id) == SelectSeq(table, LAMBDA r : r.InstanceId = instance_id)

\* a bug: the age of the newest record is not compared with the cooldown
_is_in_cooldown_ageless(table, clock, instance_id, config) ==
    RecordsOf(table, instance_id) # <<>>

\* a bug: the query reads the index oldest first (ScanIndexForward=True)
_is_in_cooldown_oldest(table, clock, instance_id, config) ==
    LET cooldown_minutes == Get(config, "cooldown_minutes", COOLDOWN_DEFAULT)
        items == RecordsOf(table, instance_id)
    IN  IF items = <<>> THEN FALSE
        ELSE (clock - items[1].Timestamp) * 60 < cooldown_minutes * 60

\* _is_in_cooldown when its query succeeds: the newest record of the instance
\* is younger than cooldown_minutes
_is_in_cooldown(table, clock, instance_id, config) ==
    LET cooldown_minutes == Get(config, "cooldown_minutes", COOLDOWN_DEFAULT)
        items == RecordsOf(table, instance_id)
    IN  IF items = <<>> THEN FALSE
        ELSE (clock - items[Len(items)].Timestamp) * 60 < cooldown_minutes * 60

\* a bug: the FilterExpression on Action is left out
_get_repair_attempts_unfiltered(table, instance_id) == Len(RecordsOf(table, instance_id))

\* _get_repair_attempts when its query succeeds
_get_repair_attempts(table, instance_id) ==
    Len(SelectSeq(RecordsOf(table, instance_id), LAMBDA r : r.Action = "repair"))

Step(name, status) == [step |-> name, status |-> status]
Call(op) == [op |-> op]
\* set_desired_capacity(DesiredCapacity=n)
SetDesiredCapacity(n) == [op |-> "set_desired_capacity", DesiredCapacity |-> n]

\* cycle with slot h changed to c
Set(h, c) == [cycle EXCEPT ![h] = c]
Finish(c, response) == [c EXCEPT !.pc = "done", !.response = response]
Raise(c) == Finish(c, "raised")

\* lines 33-44 for an event among those given: read the event, reject one
\* without an instance id
StartAutoHealWith(h, events) ==
    /\ cycle[h].pc \in {"idle", "done"}
    /\ Len(autoHealTable) < MaxRecords
    /\ \E event \in events :
          LET c == [IdleCycle EXCEPT
                       !.event = event,
                       !.instance_id = _extract_instance_id(event),
                       !.target_group_arn = Get(event, "target_group_arn", ""),
                       !.diagnostic_score = Get(event, "diagnostic_score", 100),
                       !.classification = Get(event, "classification", "Unknown State")]
          IN  cycle' = Set(h, IF Falsy(c.instance_id)
                              THEN Finish(c, "400 Missing instance_id")
                              ELSE [c EXCEPT !.pc = "get_config"])
    /\ UNCHANGED <<autoHealTable, configTable, now, engineVars, scoreVars, handlerVars>>

\* lines 33-44: read the event, reject one without an instance id
StartAutoHeal(h) == StartAutoHealWith(h, Events)

\* lines 46-51 and _get_instance_config
GetInstanceConfig(h) ==
    LET c == cycle[h] IN
    /\ c.pc = "get_config"
    /\ \/ cycle' = Set(h, Raise(c))                       \* get_dynamodb_resource raises
       \/ \E read \in {"ok", "fails"} :
             LET config == IF read = "ok" THEN Get(configTable, c.instance_id, EmptyDict)
                           ELSE EmptyDict
                 d == [c EXCEPT !.config_read = read, !.instance_config = config]
             IN  cycle' = Set(h, IF Get(config, "skip_recovery", FALSE)
                                 THEN Finish(d, "200 Recovery skipped per configuration")
                                 ELSE [d EXCEPT !.pc = "cooldown"])
    /\ UNCHANGED <<autoHealTable, configTable, now, engineVars, scoreVars, handlerVars>>

\* a bug: a cooldown query that raises counts as being in cooldown
CheckCooldown_failclosed(h) ==
    LET c == cycle[h] IN
    /\ c.pc = "cooldown"
    /\ \E query \in {"ok", "fails"} :
          LET in_cooldown == IF query = "ok"
                             THEN _is_in_cooldown(autoHealTable, now, c.instance_id,
                                                  c.instance_config)
                             ELSE TRUE
              d == [c EXCEPT !.cooldown_query = query, !.in_cooldown = in_cooldown]
          IN  cycle' = Set(h, IF in_cooldown
                              THEN Finish(d, "200 Instance in cooldown period")
                              ELSE [d EXCEPT !.pc = "attempts"])
    /\ UNCHANGED <<autoHealTable, configTable, now, engineVars, scoreVars, handlerVars>>

\* a bug: the result of the cooldown check is ignored
CheckCooldown_unheeded(h) ==
    LET c == cycle[h] IN
    /\ c.pc = "cooldown"
    /\ \E query \in {"ok", "fails"} :
          LET in_cooldown == IF query = "ok"
                             THEN _is_in_cooldown(autoHealTable, now, c.instance_id,
                                                  c.instance_config)
                             ELSE FALSE
              d == [c EXCEPT !.cooldown_query = query, !.in_cooldown = in_cooldown]
          IN  cycle' = Set(h, [d EXCEPT !.pc = "attempts"])
    /\ UNCHANGED <<autoHealTable, configTable, now, engineVars, scoreVars, handlerVars>>

\* lines 53-56 and _is_in_cooldown
CheckCooldown(h) ==
    LET c == cycle[h] IN
    /\ c.pc = "cooldown"
    /\ \E query \in {"ok", "fails"} :
          LET in_cooldown == IF query = "ok"
                             THEN _is_in_cooldown(autoHealTable, now, c.instance_id,
                                                  c.instance_config)
                             ELSE FALSE
              d == [c EXCEPT !.cooldown_query = query, !.in_cooldown = in_cooldown]
          IN  cycle' = Set(h, IF in_cooldown
                              THEN Finish(d, "200 Instance in cooldown period")
                              ELSE [d EXCEPT !.pc = "attempts"])
    /\ UNCHANGED <<autoHealTable, configTable, now, engineVars, scoreVars, handlerVars>>

\* lines 58-69 and _get_repair_attempts: count the repairs, choose the branch
GetRepairAttempts(h) ==
    LET c == cycle[h] IN
    /\ c.pc = "attempts"
    /\ \E query \in {"ok", "fails"} :
          LET repair_attempts == IF query = "ok"
                                 THEN _get_repair_attempts(autoHealTable, c.instance_id)
                                 ELSE 0
              d == [c EXCEPT !.attempts_query = query, !.repair_attempts = repair_attempts]
          IN  cycle' = Set(h, IF should_replace_instance(c.diagnostic_score, repair_attempts)
                              THEN [d EXCEPT !.pc = "replace_get_asg",
                                             !.result.action = "replace"]
                              ELSE [d EXCEPT !.pc = "repair_deregister",
                                             !.result.action = "repair"])
    /\ UNCHANGED <<autoHealTable, configTable, now, engineVars, scoreVars, handlerVars>>

\* a bug: a deregistration that fails ends the repair
RepairDeregister_abort(h) ==
    LET c == cycle[h] IN
    /\ c.pc = "repair_deregister"
    /\ \/ cycle' = Set(h, Raise(c))
       \/ \E status \in {"success", "failed"} :
             cycle' = Set(h, [c EXCEPT
                 !.pc = IF status = "failed" THEN "record" ELSE "repair_ssm",
                 !.calls = Append(@, Call("deregister_targets")),
                 !.result.steps = Append(@, Step("deregister_target", status))])
    /\ UNCHANGED <<autoHealTable, configTable, now, engineVars, scoreVars, handlerVars>>

\* _repair_instance, step 1: deregister from the target group
RepairDeregister(h) ==
    LET c == cycle[h] IN
    /\ c.pc = "repair_deregister"
    /\ \/ cycle' = Set(h, Raise(c))                       \* a client cannot be built
       \/ \E status \in {"success", "failed"} :
             cycle' = Set(h, [c EXCEPT
                 !.pc = "repair_ssm",
                 !.calls = Append(@, Call("deregister_targets")),
                 !.result.steps = Append(@, Step("deregister_target", status))])
    /\ UNCHANGED <<autoHealTable, configTable, now, engineVars, scoreVars, handlerVars>>

\* _repair_instance, step 2: start the repair automation
RepairAutomation(h) ==
    LET c == cycle[h] IN
    /\ c.pc = "repair_ssm"
    /\ \/ cycle' = Set(h, [c EXCEPT
              !.pc = "record",
              !.calls = Append(@, Call("start_automation_execution")),
              !.result.steps = Append(@, Step("ssm_repair", "initiated")),
              !.result.success = TRUE])
       \/ cycle' = Set(h, [c EXCEPT
              !.pc = "record",
              !.calls = Append(@, Call("start_automation_execution")),
              !.result.steps = Append(@, Step("ssm_repair", "failed"))])
    /\ UNCHANGED <<autoHealTable, configTable, now, engineVars, scoreVars, handlerVars>>

\* a bug: the replacement goes to the termination without deregistering
ReplaceGetAsg_noderegister(h) ==
    LET c == cycle[h] IN
    /\ c.pc = "replace_get_asg"
    /\ \/ cycle' = Set(h, Raise(c))
       \/ cycle' = Set(h, [c EXCEPT !.pc = "replace_describe"])
       \/ cycle' = Set(h, [c EXCEPT !.pc = "record",
                                    !.result.error = "No ASG found for instance"])
    /\ UNCHANGED <<autoHealTable, configTable, now, engineVars, scoreVars, handlerVars>>

\* _replace_instance, step 1, and _get_asg_for_instance
ReplaceGetAsg(h) ==
    LET c == cycle[h] IN
    /\ c.pc = "replace_get_asg"
    /\ \/ cycle' = Set(h, Raise(c))                       \* a client cannot be built
       \/ cycle' = Set(h, [c EXCEPT !.pc = "replace_deregister"])
       \/ cycle' = Set(h, [c EXCEPT !.pc = "record",    \* no group, or the lookup raised
                                    !.result.error = "No ASG found for instance"])
    /\ UNCHANGED <<autoHealTable, configTable, now, engineVars, scoreVars, handlerVars>>

\* _replace_instance, step 2: deregister from the target group
ReplaceDeregister(h) ==
    LET c == cycle[h] IN
    /\ c.pc = "replace_deregister"
    /\ \E status \in {"success", "failed"} :
          cycle' = Set(h, [c EXCEPT
              !.pc = "replace_describe",
              !.calls = Append(@, Call("deregister_targets")),
              !.result.steps = Append(@, Step("deregister_target", status))])
    /\ UNCHANGED <<autoHealTable, configTable, now, engineVars, scoreVars, handlerVars>>

\* a bug: a capacity read that raises is logged and the replacement goes on
ReplaceDescribeAsg_unread(h) ==
    LET c == cycle[h] IN
    /\ c.pc = "replace_describe"
    /\ \/ cycle' = Set(h, [c EXCEPT !.pc = "replace_terminate",
                                    !.result.error = "describe_auto_scaling_groups"])
       \/ \E desired \in {1, 2} :
             cycle' = Set(h, [c EXCEPT !.pc = "replace_terminate",
                                       !.asg = [MinSize |-> 1, DesiredCapacity |-> desired]])
    /\ UNCHANGED <<autoHealTable, configTable, now, engineVars, scoreVars, handlerVars>>

\* _replace_instance, step 3: read the group's capacity
ReplaceDescribeAsg(h) ==
    LET c == cycle[h] IN
    /\ c.pc = "replace_describe"
    /\ \/ cycle' = Set(h, [c EXCEPT !.pc = "record",    \* caught by the outer except
                                    !.result.error = "describe_auto_scaling_groups"])
       \/ \E desired \in {1, 2} :
             cycle' = Set(h, [c EXCEPT !.pc = "replace_terminate",
                                       !.asg = [MinSize |-> 1, DesiredCapacity |-> desired]])
    /\ UNCHANGED <<autoHealTable, configTable, now, engineVars, scoreVars, handlerVars>>

\* _replace_instance, steps 4 and 5: terminate the instance
ReplaceTerminate(h) ==
    LET c == cycle[h] IN
    /\ c.pc = "replace_terminate"
    /\ \/ cycle' = Set(h, [c EXCEPT
              !.pc = "record",
              !.calls = Append(@, Call("terminate_instances")),
              !.result.steps = Append(@, Step("terminate_instance", "failed"))])
       \/ LET d == [c EXCEPT
                       !.calls = Append(@, Call("terminate_instances")),
                       !.result.steps = Append(Append(@, Step("terminate_instance", "success")),
                                               Step("wait_for_replacement", "initiated"))]
          IN  cycle' = Set(h, IF c.asg.DesiredCapacity <= c.asg.MinSize
                              THEN [d EXCEPT !.pc = "replace_capacity"]
                              ELSE [d EXCEPT !.pc = "record", !.result.success = TRUE])
    /\ UNCHANGED <<autoHealTable, configTable, now, engineVars, scoreVars, handlerVars>>

\* a bug: a capacity increase that fails leaves the result a failure
ReplaceCapacity_fatal(h) ==
    LET c == cycle[h] IN
    /\ c.pc = "replace_capacity"
    /\ \/ cycle' = Set(h, [c EXCEPT
              !.pc = "record",
              !.calls = Append(@, SetDesiredCapacity(c.asg.DesiredCapacity + 1)),
              !.result.steps = Append(@, Step("increase_capacity", "success")),
              !.result.success = TRUE])
       \/ cycle' = Set(h, [c EXCEPT
              !.pc = "record",
              !.calls = Append(@, SetDesiredCapacity(c.asg.DesiredCapacity + 1))])
    /\ UNCHANGED <<autoHealTable, configTable, now, engineVars, scoreVars, handlerVars>>

\* _replace_instance, step 6: raise the desired capacity
ReplaceCapacity(h) ==
    LET c == cycle[h] IN
    /\ c.pc = "replace_capacity"
    /\ \/ cycle' = Set(h, [c EXCEPT
              !.pc = "record",
              !.calls = Append(@, SetDesiredCapacity(c.asg.DesiredCapacity + 1)),
              !.result.steps = Append(@, Step("increase_capacity", "success")),
              !.result.success = TRUE])
       \/ cycle' = Set(h, [c EXCEPT
              !.pc = "record",
              !.calls = Append(@, SetDesiredCapacity(c.asg.DesiredCapacity + 1)),
              !.result.success = TRUE])
    /\ UNCHANGED <<autoHealTable, configTable, now, engineVars, scoreVars, handlerVars>>

\* a bug: only a remediation that succeeded is recorded
RecordAutoHealAction_onsuccess(h) ==
    LET c == cycle[h]
        next(d) == IF d.result.success THEN [d EXCEPT !.pc = "verify"]
                   ELSE Finish(d, "200 result")
    IN
    /\ c.pc = "record"
    /\ \/ /\ c.result.success
          /\ autoHealTable' = Append(autoHealTable,
                [InstanceId |-> c.instance_id, Action |-> c.result.action, Timestamp |-> now])
          /\ cycle' = Set(h, next([c EXCEPT !.record_put = "ok", !.recorded = TRUE]))
       \/ /\ ~c.result.success
          /\ autoHealTable' = autoHealTable
          /\ cycle' = Set(h, next([c EXCEPT !.record_put = "ok"]))
       \/ /\ autoHealTable' = autoHealTable
          /\ cycle' = Set(h, next([c EXCEPT !.record_put = "fails"]))
    /\ UNCHANGED <<configTable, now, engineVars, scoreVars, handlerVars>>

\* lines 71-90 up to the verification trigger, and _record_auto_heal_action
RecordAutoHealAction(h) ==
    LET c == cycle[h]
        next(d) == IF d.result.success THEN [d EXCEPT !.pc = "verify"]
                   ELSE Finish(d, "200 result")
    IN
    /\ c.pc = "record"
    /\ \/ /\ autoHealTable' = Append(autoHealTable,
                [InstanceId |-> c.instance_id, Action |-> c.result.action, Timestamp |-> now])
          /\ cycle' = Set(h, next([c EXCEPT !.record_put = "ok", !.recorded = TRUE]))
       \/ /\ autoHealTable' = autoHealTable               \* put_item raises: logged
          /\ cycle' = Set(h, next([c EXCEPT !.record_put = "fails"]))
    /\ UNCHANGED <<configTable, now, engineVars, scoreVars, handlerVars>>

\* _trigger_verification
TriggerVerification(h) ==
    LET c == cycle[h] IN
    /\ c.pc = "verify"
    /\ \/ cycle' = Set(h, Raise(c))                       \* boto3.client raises
       \/ cycle' = Set(h, Finish([c EXCEPT !.verification =
                 <<[instance_id |-> c.instance_id, target_group_arn |-> c.target_group_arn,
                    action |-> c.result.action]>>], "200 result"))
       \/ cycle' = Set(h, Finish(c, "200 result"))        \* put_events raises: logged
    /\ UNCHANGED <<autoHealTable, configTable, now, engineVars, scoreVars, handlerVars>>

\* time passes between invocations (an invocation takes seconds, a step of the
\* clock minutes)
Tick ==
    /\ \A h \in Handlers : cycle[h].pc \in {"idle", "done"}
    /\ now + TickMinutes <= MaxTime
    /\ now' = now + TickMinutes
    /\ UNCHANGED <<autoHealTable, configTable, cycle, engineVars, scoreVars, handlerVars>>

\* the audit table starts empty or holding another instance's repair
Init ==
    /\ autoHealTable \in {<<>>, <<[InstanceId |-> "i-2", Action |-> "repair", Timestamp |-> 0]>>}
    /\ configTable \in [Instances -> ConfigItems]
    /\ now = 0
    /\ cycle = [h \in Handlers |-> IdleCycle]
    /\ EngineIdle
    /\ ScoreIdle
    /\ HandlersIdle

AutoHealStep(h) ==
    \/ StartAutoHeal(h)
    \/ GetInstanceConfig(h)
    \/ CheckCooldown(h)
    \/ GetRepairAttempts(h)
    \/ RepairDeregister(h)
    \/ RepairAutomation(h)
    \/ ReplaceGetAsg(h)
    \/ ReplaceDeregister(h)
    \/ ReplaceDescribeAsg(h)
    \/ ReplaceTerminate(h)
    \/ ReplaceCapacity(h)
    \/ RecordAutoHealAction(h)
    \/ TriggerVerification(h)

Next == (\E h \in Handlers : AutoHealStep(h)) \/ Tick

Spec == Init /\ [][Next]_vars


(***************************************************************************)
(* src/lambda/diagnostics/handler.py                                       *)
(*                                                                         *)
(* One invocation of the diagnostics lambda_handler, one step per stage:   *)
(* the probe run, the store write, the auto-heal trigger.  The handler     *)
(* reads nothing an earlier invocation wrote.                              *)
(***************************************************************************)
\* a bug: os_level_failure is tested before disk_corruption
_classify_failure_swapped(diagnostics) ==
    IF Get(diagnostics, "application_failure", FALSE) THEN "Application Failure"
    ELSE IF Get(diagnostics, "os_level_failure", FALSE) THEN "OS-level Failure"
    ELSE IF Get(diagnostics, "disk_corruption", FALSE) THEN "Disk Corruption"
    ELSE IF Get(diagnostics, "network_degradation", FALSE) THEN "Network Degradation"
    ELSE IF Get(diagnostics, "agent_failure", FALSE) THEN "Agent Failure"
    ELSE IF Get(diagnostics, "resource_bottleneck", FALSE) THEN "Resource Bottleneck"
    ELSE "Unknown State"

\* diagnostics.get(flag) is None, hence false, for a flag that is absent
_classify_failure(diagnostics) ==
    IF Get(diagnostics, "application_failure", FALSE) THEN "Application Failure"
    ELSE IF Get(diagnostics, "disk_corruption", FALSE) THEN "Disk Corruption"
    ELSE IF Get(diagnostics, "os_level_failure", FALSE) THEN "OS-level Failure"
    ELSE IF Get(diagnostics, "network_degradation", FALSE) THEN "Network Degradation"
    ELSE IF Get(diagnostics, "agent_failure", FALSE) THEN "Agent Failure"
    ELSE IF Get(diagnostics, "resource_bottleneck", FALSE) THEN "Resource Bottleneck"
    ELSE IF Get(diagnostics, "unknown_state", FALSE) THEN "Unknown State"
    ELSE "Unknown State"

\* the handler's own copy of _extract_instance_id
diagnostics_extract_instance_id(event) ==
    IF "instance_id" \in DOMAIN event THEN event["instance_id"]
    ELSE IF "detail" \in DOMAIN event THEN Get(event["detail"], "instance_id", None)
    ELSE None

\* a bug: the comparison of the score is inverted
needs_auto_heal_inverted(diagnostic_score, failure_classification) ==
    \/ diagnostic_score > 70
    \/ failure_classification \in {"Application Failure", "OS-level Failure", "Disk Corruption"}

\* the condition of line 63
needs_auto_heal(diagnostic_score, failure_classification) ==
    \/ diagnostic_score < 70
    \/ failure_classification \in {"Application Failure", "OS-level Failure", "Disk Corruption"}

\* the events the handler is invoked with: without an instance id, direct
\* invocations, and the target monitor's issue delivered by EventBridge
IssueDetail ==
    [k \in {"instance_id", "target_group_arn", "issue_type"} |->
        IF k = "instance_id" THEN "i-1"
        ELSE IF k = "target_group_arn" THEN "tg-1"
        ELSE "flapping_target"]
DiagnosticsEvents ==
    {EmptyDict,
     [k \in {"detail"} |-> EmptyDict],
     [k \in {"instance_id"} |-> ""],
     [k \in {"instance_id"} |-> "i-1"],
     IssueDetail,
     [k \in {"detail"} |-> IssueDetail]}

\* lines 107-118: the dict _run_ssm_diagnostics starts from (instance_id and
\* timestamp, which neither the classification nor the score reads, left out)
BaseDiagnostics ==
    [k \in {"ssm_available", "application_failure", "resource_bottleneck", "agent_failure",
            "os_level_failure", "network_degradation", "disk_corruption", "unknown_state"} |->
        FALSE]

\* d[k] = v of a dict
With(d, k, v) == [x \in DOMAIN d \cup {k} |-> IF x = k THEN v ELSE d[x]]

\* what _run_ssm_diagnostics can return: the agent is not registered; the
\* first call raises; a later call raises; the run completes, the command
\* output reporting an error or not.  The key error holds the message, which
\* nothing reads: TRUE stands for it.
SsmDiagnostics ==
    { With(With(BaseDiagnostics, "agent_failure", TRUE), "unknown_state", TRUE),
      With(With(BaseDiagnostics, "error", TRUE), "unknown_state", TRUE),
      With(With(With(BaseDiagnostics, "ssm_available", TRUE), "error", TRUE),
           "unknown_state", TRUE) }
    \cup { With(With(BaseDiagnostics, "ssm_available", TRUE), "application_failure", b) :
             b \in BOOLEAN }

\* a bug: the check of the instance id is left out
StartDiagnostics_nocheck ==
    /\ diag.pc = "idle"
    /\ \E event \in DiagnosticsEvents :
          diag' = [IdleDiag EXCEPT
                      !.pc = "run",
                      !.event = event,
                      !.instance_id = diagnostics_extract_instance_id(event),
                      !.target_group_arn = Get(event, "target_group_arn", ""),
                      !.issue_type = Get(event, "issue_type", "unhealthy_target")]
    /\ UNCHANGED <<diagnosticsTable, engineVars, scoreVars, lifecycleVars, monitorVars,
                   verifyVars>>

\* lines 31-41: read the event, reject one without an instance id
StartDiagnostics ==
    /\ diag.pc = "idle"
    /\ \E event \in DiagnosticsEvents :
          LET d == [IdleDiag EXCEPT
                       !.event = event,
                       !.instance_id = diagnostics_extract_instance_id(event),
                       !.target_group_arn = Get(event, "target_group_arn", ""),
                       !.issue_type = Get(event, "issue_type", "unhealthy_target")]
          IN  diag' = IF Falsy(d.instance_id)
                      THEN Finish(d, "400 Missing instance_id")
                      ELSE [d EXCEPT !.pc = "run"]
    /\ UNCHANGED <<diagnosticsTable, engineVars, scoreVars, lifecycleVars, monitorVars,
                   verifyVars>>

\* lines 43-50: _run_ssm_diagnostics, then the classification and the score
RunSsmDiagnostics ==
    /\ diag.pc = "run"
    /\ \/ diag' = Raise(diag)                             \* a client cannot be built
       \/ \E diagnostics_result \in SsmDiagnostics :
             diag' = [diag EXCEPT
                 !.pc = "store",
                 !.calls = Append(@, Call("describe_instance_information")),
                 !.diagnostics = diagnostics_result,
                 !.classification = _classify_failure(diagnostics_result),
                 !.diagnostic_score = calculate_diagnostic_score(diagnostics_result)]
    /\ UNCHANGED <<diagnosticsTable, engineVars, scoreVars, lifecycleVars, monitorVars,
                   verifyVars>>

\* lines 52-63 and _store_diagnostics; the score is stored rounded to two
\* decimals, which leaves a whole number as it is
StoreDiagnostics ==
    LET next(d) == IF needs_auto_heal(d.diagnostic_score, d.classification)
                   THEN [d EXCEPT !.pc = "trigger"]
                   ELSE Finish(d, "200 result")
    IN
    /\ diag.pc = "store"
    /\ \/ /\ diagnosticsTable' = Append(diagnosticsTable,
                [InstanceId |-> diag.instance_id, TargetGroupArn |-> diag.target_group_arn,
                 Classification |-> diag.classification,
                 DiagnosticScore |-> diag.diagnostic_score,
                 Diagnostics |-> diag.diagnostics, IssueType |-> diag.issue_type])
          /\ diag' = next([diag EXCEPT !.stored = TRUE])
       \/ /\ diagnosticsTable' = diagnosticsTable         \* put_item raises: logged
          /\ diag' = next(diag)
    /\ UNCHANGED <<engineVars, scoreVars, lifecycleVars, monitorVars, verifyVars>>

\* line 64 and _trigger_auto_heal
TriggerAutoHeal ==
    /\ diag.pc = "trigger"
    /\ \/ diag' = Raise(diag)                             \* boto3.client raises
       \/ diag' = Finish([diag EXCEPT
              !.calls = Append(@, Call("put_events")),
              !.triggered = <<[instance_id |-> diag.instance_id,
                               target_group_arn |-> diag.target_group_arn,
                               classification |-> diag.classification,
                               diagnostic_score |-> diag.diagnostic_score]>>], "200 result")
       \/ diag' = Finish([diag EXCEPT                     \* put_events raises: logged
              !.calls = Append(@, Call("put_events"))], "200 result")
    /\ UNCHANGED <<diagnosticsTable, engineVars, scoreVars, lifecycleVars, monitorVars,
                   verifyVars>>

DiagnosticsStep ==
    \/ StartDiagnostics
    \/ RunSsmDiagnostics
    \/ StoreDiagnostics
    \/ TriggerAutoHeal

(***************************************************************************)
(* src/lambda/target_monitor/handler.py                                    *)
(*                                                                         *)
(* One step is the body of the loop of _monitor_target_group for the       *)
(* instance in one target group: the observation is recorded, then the     *)
(* flapping check reads the table.                                         *)
(***************************************************************************)
TargetGroups == {"tg-1", "tg-2"}

\* the states describe_target_health reports for the instance in a group
TargetStates(target_group_arn) ==
    IF target_group_arn = "tg-1" THEN {"healthy", "unhealthy"} ELSE {"healthy"}

\* ScanIndexForward=False: the newest item first
NewestFirst(items) == [i \in 1 .. Len(items) |-> items[Len(items) + 1 - i]]

\* Limit=n: the query evaluates the first n items of the index
Limit(items, n) == SubSeq(items, 1, Min(n, Len(items)))

\* the number of adjacent items that differ in State
StateChanges(items) ==
    Cardinality({i \in 2 .. Len(items) : items[i].State # items[i - 1].State})

\* _check_target_flapping when its query succeeds.  The query reads the
\* index InstanceId-Timestamp-index newest first; DynamoDB applies Limit to
\* the items it evaluates and the FilterExpression to those afterwards.
_check_target_flapping(table, target_group_arn, instance_id) ==
    LET evaluated == Limit(NewestFirst(SelectSeq(table,
                               LAMBDA r : r.InstanceId = instance_id)), 10)
        health_history == SelectSeq(evaluated,
                               LAMBDA r : r.TargetGroupArn = target_group_arn)
    IN  IF Len(health_history) < 6 THEN FALSE
        ELSE StateChanges(health_history) >= 3

\* the health events of an instance in a target group, oldest first
SamplesOf(table, target_group_arn, instance_id) ==
    SelectSeq(table, LAMBDA r : r.InstanceId = instance_id
                                /\ r.TargetGroupArn = target_group_arn)

\* the reasons describe_target_health reports with a state, and the two
\* substring tests lines 135 and 148 make on them
Reasons == {"", "Target.NotInUse", "Target.Degraded"}
ContainsNotInUse(reason) == reason = "Target.NotInUse"
LowerContainsDegraded(reason) == reason = "Target.Degraded"

\* lines 121-168: the issue types appended for one target, in order
TargetIssues(state, reason, flapping) ==
    (IF state = "unhealthy" THEN <<"unhealthy_target">>
     ELSE IF state = "unused" /\ ContainsNotInUse(reason) THEN <<"unused_target">>
     ELSE IF state = "draining" \/ LowerContainsDegraded(reason) THEN <<"degraded_target">>
     ELSE <<>>)
    \o (IF flapping THEN <<"flapping_target">> ELSE <<>>)

\* MonitorOneTarget with the flapping check made before the observation is
\* recorded
MonitorOneTarget_checkfirst(target_group_arn, instance_id, state, reason, put, query) ==
    LET table == IF put = "ok"
                 THEN Append(healthTable,
                          [InstanceId |-> instance_id,
                           TargetGroupArn |-> target_group_arn,
                           State |-> state])
                 ELSE healthTable
        flapping == IF query = "ok"
                    THEN _check_target_flapping(healthTable, target_group_arn,
                                                instance_id)
                    ELSE FALSE
    IN  /\ healthTable' = table
        /\ monitor' =
              [pc |-> "done", target_group_arn |-> target_group_arn,
               instance_id |-> instance_id, state |-> state, reason |-> reason,
               put |-> put, query |-> query, flapping |-> flapping,
               issues |-> TargetIssues(state, reason, flapping)]
        /\ UNCHANGED aggregate

\* lines 110-168 for one target: _record_health_event, the state rules, then
\* _check_target_flapping.  The item's Reason and Description, which nothing
\* reads, are left out.
MonitorOneTarget(target_group_arn, instance_id, state, reason, put, query) ==
    LET table == IF put = "ok"
                 THEN Append(healthTable,
                          [InstanceId |-> instance_id,
                           TargetGroupArn |-> target_group_arn,
                           State |-> state])
                 ELSE healthTable                   \* put_item raises: logged
        flapping == IF query = "ok"
                    THEN _check_target_flapping(table, target_group_arn, instance_id)
                    ELSE FALSE
    IN  /\ healthTable' = table
        /\ monitor' =
              [pc |-> "done", target_group_arn |-> target_group_arn,
               instance_id |-> instance_id, state |-> state, reason |-> reason,
               put |-> put, query |-> query, flapping |-> flapping,
               issues |-> TargetIssues(state, reason, flapping)]
        /\ UNCHANGED aggregate

\* the loop body for the instance in one of two groups, its state healthy or
\* unhealthy
MonitorTarget ==
    /\ Len(healthTable) < MaxHistory
    /\ \E target_group_arn \in TargetGroups, instance_id \in Instances :
          /\ Len(SamplesOf(healthTable, target_group_arn, instance_id)) < MaxSamples
          /\ \E state \in TargetStates(target_group_arn),
                put \in {"ok", "fails"}, query \in {"ok", "fails"} :
                MonitorOneTarget(target_group_arn, instance_id, state, "", put, query)
    /\ UNCHANGED <<engineVars, scoreVars, lifecycleVars, diagnosticsVars, verifyVars>>

\* every state describe_target_health reports for a target
ObservedStates == {"healthy", "unhealthy", "unused", "draining"}

\* the loop body for one target of one group, its state and reason any of
\* those the provider reports
ObserveTarget ==
    /\ Len(healthTable) < MaxObserved
    /\ \E state \in ObservedStates, reason \in Reasons,
          put \in {"ok", "fails"}, query \in {"ok", "fails"} :
          MonitorOneTarget("tg-1", "i-1", state, reason, put, query)
    /\ UNCHANGED <<engineVars, scoreVars, lifecycleVars, diagnosticsVars, verifyVars>>

\* the datapoints get_metric_statistics returns: each holds the Maximum of
\* UnHealthyHostCount over one period
Datapoints ==
    UNION {[1 .. n -> [{"Maximum"} -> 0 .. MaxTargets]] : n \in 0 .. MaxDatapoints}

\* max(dp.get('Maximum', 0) for dp in datapoints), datapoints not empty
MaxMaximum(datapoints) ==
    CHOOSE m \in {Get(datapoints[i], "Maximum", 0) : i \in DOMAIN datapoints} :
        \A i \in DOMAIN datapoints : Get(datapoints[i], "Maximum", 0) <= m

\* AggregateOutcome with the share tested by >= 50
AggregateOutcome_atleast(datapoints, total_targets) ==
    IF datapoints = <<>> THEN [exception |-> "none", issues |-> <<>>]
    ELSE LET max_unhealthy == MaxMaximum(datapoints)
         IN  IF max_unhealthy > 0
             THEN IF total_targets = 0
                  THEN [exception |-> "ZeroDivisionError", issues |-> <<>>]
                  ELSE IF max_unhealthy * 100 >= 50 * total_targets
                       THEN [exception |-> "none",
                             issues |-> <<"high_unhealthy_percentage">>]
                       ELSE [exception |-> "none", issues |-> <<>>]
             ELSE [exception |-> "none", issues |-> <<>>]

\* lines 269-285 of _check_aggregate_metrics: what the division raises or
\* the issues it appends.  (max_unhealthy / total_targets) * 100 > 50 is
\* compared in integers.
AggregateOutcome(datapoints, total_targets) ==
    IF datapoints = <<>> THEN [exception |-> "none", issues |-> <<>>]
    ELSE LET max_unhealthy == MaxMaximum(datapoints)
         IN  IF max_unhealthy > 0
             THEN IF total_targets = 0
                  THEN [exception |-> "ZeroDivisionError",  \* caught at 287
                        issues |-> <<>>]
                  ELSE IF max_unhealthy * 100 > 50 * total_targets
                       THEN [exception |-> "none",
                             issues |-> <<"high_unhealthy_percentage">>]
                       ELSE [exception |-> "none", issues |-> <<>>]
             ELSE [exception |-> "none", issues |-> <<>>]

\* _check_aggregate_metrics for a group of total_targets targets: the
\* metric is read, then the share is tested; whatever is raised is caught
\* and logged at line 287 and the issues gathered so far are returned
_check_aggregate_metrics ==
    /\ aggregate.pc = "idle"
    /\ \E total_targets \in 0 .. MaxTargets, read \in {"ok", "fails"},
          datapoints \in Datapoints :
          LET outcome == IF read = "ok"
                         THEN AggregateOutcome(datapoints, total_targets)
                         ELSE [exception |-> "ClientError", issues |-> <<>>]
          IN  /\ read = "fails" => datapoints = <<>>
              /\ aggregate' =
                    [pc |-> "done", read |-> read, datapoints |-> datapoints,
                     total_targets |-> total_targets,
                     exception |-> outcome.exception, issues |-> outcome.issues]
    /\ UNCHANGED <<healthTable, monitor>>
    /\ UNCHANGED <<engineVars, scoreVars, lifecycleVars, diagnosticsVars, verifyVars>>

(***************************************************************************)
(* src/lambda/verify/handler.py                                            *)
(*                                                                         *)
(* One invocation of the verify lambda_handler, one step per stage: the    *)
(* wait for a replaced instance, the five checks, the store write, the     *)
(* re-registration, the notification.                                      *)
(***************************************************************************)
\* the handler's own copy of _extract_instance_id
verify_extract_instance_id(event) ==
    IF "instance_id" \in DOMAIN event THEN event["instance_id"]
    ELSE IF "detail" \in DOMAIN event THEN Get(event["detail"], "instance_id", None)
    ELSE None

\* the Detail _trigger_verification of the auto-heal handler sends
VerificationDetail(action) ==
    [k \in {"instance_id", "target_group_arn", "action"} |->
        IF k = "instance_id" THEN "i-1"
        ELSE IF k = "target_group_arn" THEN "tg-1"
        ELSE action]

\* the events the handler is invoked with: without an instance id, direct
\* invocations, and the auto-heal handler's event delivered by EventBridge
VerifyEvents ==
    {EmptyDict,
     [k \in {"detail"} |-> EmptyDict],
     [k \in {"instance_id"} |-> ""],
     [k \in {"instance_id"} |-> "i-1"],
     VerificationDetail("repair"),
     VerificationDetail("replace"),
     [k \in {"detail"} |-> VerificationDetail("replace")]}

\* the five checks in the order _run_verification_checks runs them
CheckOrder ==
    <<"ssm_online", "app_health", "resource_usage", "log_anomalies", "lb_health_simulation">>
CheckNames == {CheckOrder[i] : i \in DOMAIN CheckOrder}

\* a bug: a failed load-balancer simulation is not appended to failed_checks
_run_verification_checks_nolb(passed) ==
    LET failed_checks == SelectSeq(CheckOrder,
                             LAMBDA k : ~passed[k] /\ k # "lb_health_simulation")
    IN  [all_checks_passed |-> Len(failed_checks) = 0,
         checks |-> [k \in CheckNames |-> [check |-> k, passed |-> passed[k]]],
         failed_checks |-> failed_checks]

\* _run_verification_checks, passed[k] being what check k returned
_run_verification_checks(passed) ==
    LET failed_checks == SelectSeq(CheckOrder, LAMBDA k : ~passed[k])
    IN  [all_checks_passed |-> Len(failed_checks) = 0,
         checks |-> [k \in CheckNames |-> [check |-> k, passed |-> passed[k]]],
         failed_checks |-> failed_checks]

\* lines 34-47: read the event, reject one without an instance id
StartVerify ==
    /\ verify.pc = "idle"
    /\ \E event \in VerifyEvents :
          LET v == [IdleVerify EXCEPT
                       !.event = event,
                       !.instance_id = verify_extract_instance_id(event),
                       !.target_group_arn = Get(event, "target_group_arn", ""),
                       !.action = Get(event, "action", "repair")]
          IN  verify' = IF Falsy(v.instance_id)
                        THEN Finish(v, "400 Missing instance_id")
                        ELSE IF v.action = "replace" THEN [v EXCEPT !.pc = "wait"]
                        ELSE [v EXCEPT !.pc = "check"]
    /\ UNCHANGED <<verificationTable, slack, engineVars, scoreVars, lifecycleVars,
                   monitorVars, diagnosticsVars>>

\* _wait_for_instance_ready: the instance runs, or the wait raises (the
\* client cannot be built; the instance is terminated or stopped; the time
\* is up)
WaitForInstanceReady ==
    /\ verify.pc = "wait"
    /\ \/ verify' = Raise(verify)
       \/ verify' = Raise([verify EXCEPT !.calls = Append(@, Call("describe_instances"))])
       \/ verify' = [verify EXCEPT !.pc = "check",
                                   !.calls = Append(@, Call("describe_instances"))]
    /\ UNCHANGED <<verificationTable, slack, engineVars, scoreVars, lifecycleVars,
                   monitorVars, diagnosticsVars>>

\* what the probe of a check finds: the instance is well ("good"), it is not
\* ("bad"), or the probe could not execute ("raised": a call of the probe
\* raised, or its output cannot be read)
ProbeOutcomes == {"good", "bad", "raised"}

\* 'passed' of the result each check returns, by what its probe found
_check_ssm_online(outcome) == outcome = "good"
_check_app_health_endpoint(outcome) == outcome = "good"
_check_resource_usage(outcome) == outcome = "good"
_check_log_anomalies(outcome) == outcome = "good" \/ outcome = "raised"
_simulate_lb_health_check(outcome) == outcome = "good"

CheckPassed(probes) ==
    [k \in CheckNames |->
        CASE k = "ssm_online"           -> _check_ssm_online(probes[k])
          [] k = "app_health"           -> _check_app_health_endpoint(probes[k])
          [] k = "resource_usage"       -> _check_resource_usage(probes[k])
          [] k = "log_anomalies"        -> _check_log_anomalies(probes[k])
          [] k = "lb_health_simulation" -> _simulate_lb_health_check(probes[k])]

\* line 50 and _run_verification_checks: each check runs its probe and passes
\* or not
RunVerificationChecks ==
    /\ verify.pc = "check"
    /\ \/ verify' = Raise(verify)                         \* a client cannot be built
       \/ \E probes \in [CheckNames -> ProbeOutcomes] :
             verify' = [verify EXCEPT
                 !.pc = "store",
                 !.calls = Append(@, Call("describe_instance_information")),
                 !.probes = probes,
                 !.verification_result = _run_verification_checks(CheckPassed(probes))]
    /\ UNCHANGED <<verificationTable, slack, engineVars, scoreVars, lifecycleVars,
                   monitorVars, diagnosticsVars>>

\* lines 53-56 and _store_verification_result
StoreVerificationResult ==
    LET next(v) == IF v.verification_result.all_checks_passed
                   THEN [v EXCEPT !.pc = "reregister"]
                   ELSE [v EXCEPT !.pc = "notify"]
    IN
    /\ verify.pc = "store"
    /\ \/ /\ verificationTable' = Append(verificationTable,
                [InstanceId |-> verify.instance_id,
                 TargetGroupArn |-> verify.target_group_arn,
                 Result |-> verify.verification_result])
          /\ verify' = next([verify EXCEPT !.stored = TRUE])
       \/ /\ verificationTable' = verificationTable       \* put_item raises: logged
          /\ verify' = next(verify)
    /\ UNCHANGED <<slack, engineVars, scoreVars, lifecycleVars, monitorVars, diagnosticsVars>>

\* lines 57-58 and _reregister_target
ReregisterTarget ==
    /\ verify.pc = "reregister"
    /\ \/ verify' = Raise(verify)                         \* a client cannot be built
       \/ verify' = [verify EXCEPT !.pc = "notify",
                                   !.calls = Append(@, Call("register_targets"))]
       \/ verify' = Raise([verify EXCEPT                  \* register_targets raises: re-raised
                              !.calls = Append(@, Call("register_targets"))])
    /\ UNCHANGED <<verificationTable, slack, engineVars, scoreVars, lifecycleVars,
                   monitorVars, diagnosticsVars>>

\* a bug: a publish that raises is re-raised, as _reregister_target does
SendVerificationNotification_reraise ==
    /\ verify.pc = "notify"
    /\ \/ verify' = Raise(verify)
       \/ \E sent \in {"no topic", "sent"} :
             verify' = Finish([verify EXCEPT !.notification = sent], "200 result")
       \/ verify' = Raise([verify EXCEPT !.notification = "failed"])
    /\ UNCHANGED <<verificationTable, slack, engineVars, scoreVars, lifecycleVars,
                   monitorVars, diagnosticsVars>>

\* lines 65-70 and _send_verification_notification: boto3.client raises; or
\* SNS_TOPIC_ARN is not set; or the publish is made; or it raises and is logged
SendVerificationNotification ==
    /\ verify.pc = "notify"
    /\ \/ verify' = Raise(verify)
       \/ \E sent \in {"no topic", "sent", "failed"} :
             verify' = Finish([verify EXCEPT !.notification = sent], "200 result")
    /\ UNCHANGED <<verificationTable, slack, engineVars, scoreVars, lifecycleVars,
                   monitorVars, diagnosticsVars>>

VerifyStep ==
    \/ StartVerify
    \/ WaitForInstanceReady
    \/ RunVerificationChecks
    \/ StoreVerificationResult
    \/ ReregisterTarget
    \/ SendVerificationNotification

(***************************************************************************)
(* src/lambda/slack_notifier/handler.py                                    *)
(*                                                                         *)
(* One invocation of the slack notifier, one step per record of the event. *)
(***************************************************************************)
\* the values of SLACK_WEBHOOK_URL: not configured, or a webhook
WebhookUrls == {"", "https://hooks.slack.com/services/T"}

\* the Records of the events the notifier is invoked with
SnsRecord == [EventSource |-> "aws:sns"]
OtherRecord == [EventSource |-> "aws:s3"]
SlackRecords ==
    {<<>>, <<SnsRecord>>, <<OtherRecord>>, <<SnsRecord, SnsRecord>>, <<OtherRecord, SnsRecord>>}

\* the loop of lines 33-74 moves to the next record, or line 76 returns
NextRecord(s) ==
    IF s.next < Len(s.records) THEN [s EXCEPT !.next = @ + 1]
    ELSE Finish(s, "200 Message sent to Slack")

\* lines 27-33
StartSlackNotifier ==
    /\ slack.pc = "idle"
    /\ \E url \in WebhookUrls, records \in SlackRecords :
          LET s == [IdleSlack EXCEPT !.webhook_url = url, !.records = records]
          IN  slack' = IF url = "" THEN Finish(s, "400 Slack webhook URL not configured")
                       ELSE IF records = <<>> THEN Finish(s, "200 Message sent to Slack")
                       ELSE [s EXCEPT !.pc = "send"]
    /\ UNCHANGED <<verificationTable, verify, engineVars, scoreVars, lifecycleVars,
                   monitorVars, diagnosticsVars>>

\* lines 33-80 for one record and _send_to_slack: a record that is not from
\* SNS is passed over; the message is posted; or the post (or the formatting)
\* raises, which line 78 catches
ProcessSlackRecord ==
    /\ slack.pc = "send"
    /\ IF slack.records[slack.next].EventSource # "aws:sns"
       THEN slack' = NextRecord(slack)
       ELSE \/ slack' = NextRecord([slack EXCEPT !.posts = Append(@, "ok")])
            \/ slack' = Finish([slack EXCEPT !.posts = Append(@, "failed")], "500 Error")
    /\ UNCHANGED <<verificationTable, verify, engineVars, scoreVars, lifecycleVars,
                   monitorVars, diagnosticsVars>>

SlackStep ==
    \/ StartSlackNotifier
    \/ ProcessSlackRecord

(***************************************************************************)
(* Inputs of the pure functions.                                           *)
(***************************************************************************)
\* the seven labels of the tables and one label that is in neither
Classifications == DOMAIN PRIORITY_MAP \cup {"Kernel Panic"}

EngineScores == (0 - ScoreMargin) .. (100 + ScoreMargin)

\* an instance config with skip_recovery absent, true or false
SkipConfigs == {EmptyDict} \cup {[k \in {"skip_recovery"} |-> b] : b \in BOOLEAN}

EngineInputs ==
    [instance_id : {"i-1"}, classification : Classifications,
     diagnostic_score : EngineScores, repair_attempts : 0 .. MaxAttempts,
     instance_config : SkipConfigs]

FlagKeys == {"application_failure", "disk_corruption", "network_degradation",
             "ssm_agent_failure", "cloudwatch_agent_failure"}
UsageKeys == {"cpu_usage", "memory_usage"}
UsageValues == (80 - UsageMargin) .. (90 + UsageMargin)

\* a diagnostics dict: each flag absent, true or false (f), each usage absent
\* or a number (c, m: <<present, value>>)
FlagStates == {"absent", "true", "false"}
UsageStates == {<<FALSE, 0>>} \cup {<<TRUE, v>> : v \in UsageValues}
Report(f, c, m) ==
    [k \in {x \in FlagKeys : f[x] # "absent"}
           \cup (IF c[1] THEN {"cpu_usage"} ELSE {})
           \cup (IF m[1] THEN {"memory_usage"} ELSE {}) |->
        IF k = "cpu_usage" THEN c[2]
        ELSE IF k = "memory_usage" THEN m[2]
        ELSE f[k] = "true"]


\* the lifecycle variables of a specification that does not use them
LifecycleIdle ==
    /\ autoHealTable = <<>>
    /\ configTable = EmptyDict
    /\ now = 0
    /\ cycle = [h \in Handlers |-> IdleCycle]


(***************************************************************************)
(* SpecEngine: one call of a decision-engine function on any input.        *)
(***************************************************************************)
InitEngine ==
    /\ engineIn \in EngineInputs
    /\ engineOut = NoCall
    /\ ScoreIdle
    /\ LifecycleIdle
    /\ HandlersIdle

CallMakeDecision ==
    /\ engineOut = NoCall
    /\ engineOut' = [fn |-> "make_decision",
                     value |-> make_decision(engineIn.instance_id, engineIn.classification,
                                             engineIn.diagnostic_score, engineIn.repair_attempts,
                                             engineIn.instance_config)]
    /\ UNCHANGED <<engineIn, scoreVars, lifecycleVars, handlerVars>>

CallCalculateRepairPriority ==
    /\ engineOut = NoCall
    /\ engineOut' = [fn |-> "calculate_repair_priority",
                     value |-> calculate_repair_priority(engineIn.classification,
                                   engineIn.diagnostic_score, engineIn.repair_attempts)]
    /\ UNCHANGED <<engineIn, scoreVars, lifecycleVars, handlerVars>>

CallGetRepairTimeout ==
    /\ engineOut = NoCall
    /\ engineOut' = [fn |-> "get_repair_timeout",
                     value |-> get_repair_timeout(engineIn.classification)]
    /\ UNCHANGED <<engineIn, scoreVars, lifecycleVars, handlerVars>>

NextEngine == CallMakeDecision \/ CallCalculateRepairPriority \/ CallGetRepairTimeout

SpecEngine == InitEngine /\ [][NextEngine]_vars

(***************************************************************************)
(* SpecScore: one call of calculate_diagnostic_score on any report.        *)
(***************************************************************************)
InitScore ==
    /\ \E f \in [FlagKeys -> FlagStates], c \in UsageStates, m \in UsageStates :
          scoreIn = Report(f, c, m)
    /\ scoreOut = NoCall
    /\ EngineIdle
    /\ LifecycleIdle
    /\ HandlersIdle

CallCalculateDiagnosticScore ==
    /\ scoreOut = NoCall
    /\ scoreOut' = [fn |-> "calculate_diagnostic_score",
                    value |-> calculate_diagnostic_score(scoreIn)]
    /\ UNCHANGED <<scoreIn, engineVars, lifecycleVars, handlerVars>>

NextScore == CallCalculateDiagnosticScore

SpecScore == InitScore /\ [][NextScore]_vars

(***************************************************************************)
(* SpecClassify: one call of _classify_failure on any report.              *)
(***************************************************************************)
\* the flags _classify_failure reads, in the order it reads them
ClassifyOrder ==
    <<"application_failure", "disk_corruption", "os_level_failure", "network_degradation",
      "agent_failure", "resource_bottleneck", "unknown_state">>
ClassifyKeys == {ClassifyOrder[i] : i \in DOMAIN ClassifyOrder}

\* a diagnostics dict: each flag absent, true or false
ClassifyReport(f) == [k \in {x \in ClassifyKeys : f[x] # "absent"} |-> f[k] = "true"]

InitClassify ==
    /\ \E f \in [ClassifyKeys -> FlagStates] : scoreIn = ClassifyReport(f)
    /\ scoreOut = NoCall
    /\ EngineIdle
    /\ LifecycleIdle
    /\ HandlersIdle

CallClassifyFailure ==
    /\ scoreOut = NoCall
    /\ scoreOut' = [fn |-> "_classify_failure", value |-> _classify_failure(scoreIn)]
    /\ UNCHANGED <<scoreIn, engineVars, lifecycleVars, handlerVars>>

NextClassify == CallClassifyFailure

SpecClassify == InitClassify /\ [][NextClassify]_vars

(***************************************************************************)
(* SpecMonitor: the target monitor observes one instance in two groups.    *)
(***************************************************************************)
InitMonitor ==
    /\ MonitorIdle
    /\ EngineIdle
    /\ ScoreIdle
    /\ LifecycleIdle
    /\ DiagnosticsIdle
    /\ VerifyIdle

NextMonitor == MonitorTarget

SpecMonitor == InitMonitor /\ [][NextMonitor]_vars

(***************************************************************************)
(* SpecObserve: the target monitor observes one target of one group, in    *)
(* any state and with any reason.                                          *)
(***************************************************************************)
NextObserve == ObserveTarget

SpecObserve == InitMonitor /\ [][NextObserve]_vars

(***************************************************************************)
(* SpecAggregate: one aggregate check of a target group.                   *)
(***************************************************************************)
NextAggregate == _check_aggregate_metrics

SpecAggregate == InitMonitor /\ [][NextAggregate]_vars

(***************************************************************************)
(* SpecDiagnostics: one invocation of the diagnostics handler, the audit   *)
(* table empty or holding an action on the instance taken just now.        *)
(***************************************************************************)
InitDiagnostics ==
    /\ autoHealTable \in {<<>>, <<[InstanceId |-> "i-1", Action |-> "repair", Timestamp |-> 0]>>}
    /\ configTable \in [Instances -> ConfigItems]
    /\ now = 0
    /\ cycle = [h \in Handlers |-> IdleCycle]
    /\ DiagnosticsIdle
    /\ MonitorIdle
    /\ VerifyIdle
    /\ EngineIdle
    /\ ScoreIdle

NextDiagnostics == DiagnosticsStep

SpecDiagnostics == InitDiagnostics /\ [][NextDiagnostics]_vars

(***************************************************************************)
(* SpecVerify: one invocation of the verify handler and one of the slack   *)
(* notifier.                                                               *)
(***************************************************************************)
InitVerify ==
    /\ VerifyIdle
    /\ MonitorIdle
    /\ DiagnosticsIdle
    /\ LifecycleIdle
    /\ EngineIdle
    /\ ScoreIdle

NextVerify == VerifyStep \/ SlackStep

SpecVerify == InitVerify /\ [][NextVerify]_vars

(***************************************************************************)
(* SpecHandlers: the invocations of one of the three handlers that take an *)
(* event naming an instance: auto-heal (as in Spec), diagnostics or verify.*)
(***************************************************************************)
AutoHealIdle == now = 0 /\ \A h \in Handlers : cycle[h].pc = "idle"

InitHandlers == Init

NextHandlers ==
    \/ (diag.pc = "idle" /\ verify.pc = "idle" /\ Next)
    \/ (AutoHealIdle /\ verify.pc = "idle" /\ DiagnosticsStep)
    \/ (AutoHealIdle /\ diag.pc = "idle" /\ VerifyStep)

SpecHandlers == InitHandlers /\ [][NextHandlers]_vars

(***************************************************************************)
(* SpecRace: two invocations of the auto-heal handler run at the same time *)
(* for the same instance, their steps interleaved in every order; each     *)
(* slot runs one invocation and the clock stands still.                    *)
(***************************************************************************)
RaceHandlers == {"h1", "h2"}

\* the events of the two invocations: direct ones with a score that leads to
\* a repair (50) or to a replacement (25)
RaceEvents ==
    {e \in DirectEvents : /\ DOMAIN e = {"instance_id", "target_group_arn",
                                          "classification", "diagnostic_score"}
                          /\ e["classification"] = "Agent Failure"
                          /\ e["diagnostic_score"] \in {25, 50}}

InitRace ==
    /\ autoHealTable = <<>>
    /\ configTable \in [Instances -> ConfigItems]
    /\ now = 0
    /\ cycle = [h \in RaceHandlers |-> IdleCycle]
    /\ EngineIdle
    /\ ScoreIdle
    /\ HandlersIdle

NextRace ==
    \E h \in RaceHandlers :
        /\ cycle[h].pc # "done"
        /\ AutoHealStep(h)
        /\ cycle'[h].event \in RaceEvents

SpecRace == InitRace /\ [][NextRace]_vars

(***************************************************************************)
(* SpecPair: an invocation for i-1 and an invocation for another instance, *)
(* i-2, interleaved step by step.  The clock stands at MaxTime; the audit  *)
(* table starts empty or holding a repair of i-1 made at 0.                *)
(***************************************************************************)
\* the event of the invocation for the other instance
OtherEvents ==
    {[k \in {"instance_id", "target_group_arn", "classification", "diagnostic_score"} |->
         IF k = "instance_id" THEN "i-2"
         ELSE IF k = "target_group_arn" THEN "tg-1"
         ELSE IF k = "classification" THEN "Agent Failure"
         ELSE 50]}

StartOther(h) == StartAutoHealWith(h, OtherEvents)

InitPair ==
    /\ autoHealTable \in {<<>>, <<[InstanceId |-> "i-1", Action |-> "repair", Timestamp |-> 0]>>}
    /\ configTable \in [Instances -> ConfigItems]
    /\ now = MaxTime
    /\ cycle = [h \in RaceHandlers |-> IdleCycle]
    /\ EngineIdle
    /\ ScoreIdle
    /\ HandlersIdle

NextPair ==
    \/ /\ cycle["h1"].pc # "done"
       /\ AutoHealStep("h1")
       /\ cycle'["h1"].event \in RaceEvents
    \/ /\ cycle["h2"].pc = "idle"
       /\ StartOther("h2")
    \/ /\ cycle["h2"].pc \notin {"idle", "done"}
       /\ AutoHealStep("h2")

SpecPair == InitPair /\ [][NextPair]_vars

(***************************************************************************)
(* Claims about the decision engine, checked under SpecEngine.             *)
(***************************************************************************)
MadeDecision == engineOut.fn = "make_decision"
GotPriority == engineOut.fn = "calculate_repair_priority"
GotTimeout == engineOut.fn = "get_repair_timeout"

\* the skip condition as the specification words it
SkipRecoverySet(config) == "skip_recovery" \in DOMAIN config /\ config["skip_recovery"]
SkipCondition(classification, score, config) ==
    \/ SkipRecoverySet(config)
    \/ score < 10
    \/ classification = "OS-level Failure"
    \/ classification = "Disk Corruption"

\* C1: make_decision returns skip = true exactly when skip_recovery is true,
\* or the score is below 10, or the classification is OS-level Failure or Disk
\* Corruption; a skipped decision has action None, priority 0 and timeout 0.
C1_SkipIffCondition ==
    MadeDecision =>
        /\ engineOut.value.skip <=>
              SkipCondition(engineIn.classification, engineIn.diagnostic_score,
                            engineIn.instance_config)
        /\ engineOut.value.skip =>
              /\ engineOut.value.action = "None"
              /\ engineOut.value.priority = 0
              /\ engineOut.value.timeout_seconds = 0

\* a decision skipped for its classification alone, with a good score and
\* two attempts behind it
C1_Witness ==
    /\ MadeDecision
    /\ engineOut.value.skip
    /\ engineIn.classification = "Disk Corruption"
    /\ engineIn.diagnostic_score = 80
    /\ engineIn.repair_attempts = 2
    /\ engineIn.instance_config = EmptyDict

\* C2: a decision that is not skipped has action replace exactly when the score
\* is below 30 or there were at least 2 repair attempts, and repair otherwise,
\* whatever the classification.
C2_ReplaceIffLowScoreOrAttempts ==
    (MadeDecision /\ ~engineOut.value.skip) =>
        IF engineIn.diagnostic_score < 30 \/ engineIn.repair_attempts >= 2
        THEN engineOut.value.action = "replace"
        ELSE engineOut.value.action = "repair"

\* Network Degradation, score 80, 2 attempts: replace
C2_Witness ==
    /\ MadeDecision
    /\ engineIn.classification = "Network Degradation"
    /\ engineIn.diagnostic_score = 80
    /\ engineIn.repair_attempts = 2
    /\ ~engineOut.value.skip
    /\ engineOut.value.action = "replace"

\* C4: calculate_repair_priority returns a value in {0,1,2,3,4}, and returns 1
\* (CRITICAL) whenever repair_attempts >= 2.
C4_PriorityRange ==
    GotPriority =>
        /\ engineOut.value \in {0, 1, 2, 3, 4}
        /\ engineIn.repair_attempts >= 2 => engineOut.value = 1

\* an unlisted label with a good score and 2 attempts is CRITICAL
C4_Witness ==
    /\ GotPriority
    /\ engineIn.classification = "Kernel Panic"
    /\ engineIn.diagnostic_score = 90
    /\ engineIn.repair_attempts = 2
    /\ engineOut.value = 1

\* the reference priority of claim C5
RefBase(classification) ==
    CASE classification \in {"Application Failure", "OS-level Failure", "Disk Corruption"} -> 1
      [] classification = "Agent Failure" -> 2
      [] classification \in {"Resource Bottleneck", "Network Degradation"} -> 3
      [] OTHER -> 0
RefPriority(classification, score, attempts) ==
    CASE attempts >= 2 -> 1
      [] attempts < 2 /\ score < 20 -> 1
      [] attempts < 2 /\ score >= 20 /\ score < 40 ->
            IF RefBase(classification) <= 2 THEN RefBase(classification) ELSE 2
      [] OTHER -> RefBase(classification)

\* C5: calculate_repair_priority equals the reference: the table value of the
\* classification (0 for an unlisted label); 1 if the score is below 20; the
\* integer minimum of the table value and 2 if the score is below 40; and 1
\* whenever repair_attempts >= 2.
C5_PriorityEqualsReference ==
    GotPriority =>
        engineOut.value = RefPriority(engineIn.classification, engineIn.diagnostic_score,
                                      engineIn.repair_attempts)

\* (Resource Bottleneck, 35, 0) gives 2
C5_Witness ==
    /\ GotPriority
    /\ engineIn.classification = "Resource Bottleneck"
    /\ engineIn.diagnostic_score = 35
    /\ engineIn.repair_attempts = 0
    /\ engineOut.value = 2

\* urgency of a priority level: CRITICAL > HIGH > MEDIUM > LOW > UNKNOWN
Urgency(p) == IF p = 0 THEN 0 ELSE 5 - p
MoreUrgent(p, q) == IF Urgency(p) >= Urgency(q) THEN p ELSE q

\* C6: for a score in 20..39 and fewer than 2 attempts the priority is the more
\* urgent of the classification's base priority and HIGH, so it is never less
\* urgent than HIGH, for every classification.
C6_BandTightensToHigh ==
    (GotPriority /\ engineIn.diagnostic_score >= 20 /\ engineIn.diagnostic_score < 40
                 /\ engineIn.repair_attempts < 2) =>
        /\ engineOut.value = MoreUrgent(RefBase(engineIn.classification), 2)
        /\ Urgency(engineOut.value) >= Urgency(2)

\* C7: a decision that is not skipped has timeout 1800 when it replaces and the
\* classification's repair timeout when it repairs, and its priority is
\* calculate_repair_priority of the same inputs.
C7_TimeoutAndPriority ==
    (MadeDecision /\ ~engineOut.value.skip) =>
        /\ engineOut.value.action = "replace" => engineOut.value.timeout_seconds = 1800
        /\ engineOut.value.action = "repair" =>
              engineOut.value.timeout_seconds = get_repair_timeout(engineIn.classification)
        /\ engineOut.value.priority =
              calculate_repair_priority(engineIn.classification, engineIn.diagnostic_score,
                                        engineIn.repair_attempts)

\* Agent Failure, score 50, no attempts: repair, timeout 900, priority 2
C7_Witness ==
    /\ MadeDecision
    /\ engineIn.classification = "Agent Failure"
    /\ engineIn.diagnostic_score = 50
    /\ engineIn.repair_attempts = 0
    /\ engineOut.value.action = "repair"
    /\ engineOut.value.timeout_seconds = 900
    /\ engineOut.value.priority = 2

\* the timeouts claim C8 lists
RefTimeout(classification) ==
    CASE classification = "Application Failure" -> 300
      [] classification = "Resource Bottleneck" -> 600
      [] classification = "Agent Failure" -> 900
      [] classification = "Network Degradation" -> 600
      [] classification = "OS-level Failure" -> 0
      [] classification = "Disk Corruption" -> 0
      [] classification = "Unknown State" -> 300
      [] OTHER -> 300

\* C8: get_repair_timeout returns the listed timeout of each classification and
\* 300 for any other label, so no decision with action repair has timeout 0.
C8_RepairTimeoutTable ==
    /\ GotTimeout => engineOut.value = RefTimeout(engineIn.classification)
    /\ (MadeDecision /\ engineOut.value.action = "repair") =>
          engineOut.value.timeout_seconds # 0

\* a repair decision for an unlisted label carries the default timeout
C8_Witness ==
    /\ MadeDecision
    /\ engineIn.classification = "Kernel Panic"
    /\ engineOut.value.action = "repair"
    /\ engineOut.value.timeout_seconds = 300

(***************************************************************************)
(* Claims about the diagnostic score, checked under SpecScore.             *)
(***************************************************************************)
GotScore == scoreOut.fn = "calculate_diagnostic_score"

\* C9: for every report calculate_diagnostic_score returns s with 0 <= s <= 100.
C9_ScoreInRange == GotScore => (scoreOut.value >= 0 /\ scoreOut.value <= 100)

\* every penalty applies (160 in all) and the score is held at 0
C9_Witness ==
    /\ GotScore
    /\ \A k \in FlagKeys : k \in DOMAIN scoreIn /\ scoreIn[k]
    /\ "cpu_usage" \in DOMAIN scoreIn /\ scoreIn["cpu_usage"] > 90
    /\ "memory_usage" \in DOMAIN scoreIn /\ scoreIn["memory_usage"] > 90
    /\ scoreOut.value = 0

\* the penalties claim C10 lists; a missing field has none
FlagPenalty(report, key, penalty) ==
    IF key \in DOMAIN report /\ report[key] THEN penalty ELSE 0
UsagePenalty(report, key) ==
    IF key \notin DOMAIN report THEN 0
    ELSE IF report[key] > 90 THEN 20
    ELSE IF report[key] > 80 /\ report[key] <= 90 THEN 10
    ELSE 0
TotalPenalty(report) ==
    FlagPenalty(report, "application_failure", 40)
    + UsagePenalty(report, "cpu_usage")
    + UsagePenalty(report, "memory_usage")
    + FlagPenalty(report, "disk_corruption", 30)
    + FlagPenalty(report, "network_degradation", 15)
    + FlagPenalty(report, "ssm_agent_failure", 25)
    + FlagPenalty(report, "cloudwatch_agent_failure", 10)

\* C10: calculate_diagnostic_score equals max(0, 100 - P), P the sum of the
\* penalties that apply, each applied independently.
C10_ScoreEqualsPenaltySum ==
    GotScore =>
        scoreOut.value = (IF TotalPenalty(scoreIn) >= 100 THEN 0
                          ELSE 100 - TotalPenalty(scoreIn))

\* cpu 95, memory 85, no flag: 70
C10_Witness ==
    /\ GotScore
    /\ DOMAIN scoreIn = {"cpu_usage", "memory_usage"}
    /\ scoreIn["cpu_usage"] = 95
    /\ scoreIn["memory_usage"] = 85
    /\ scoreOut.value = 70

(***************************************************************************)
(* Claims about the auto-heal handler, checked under Spec.                 *)
(***************************************************************************)
RemediationCalls ==
    {"deregister_targets", "start_automation_execution", "terminate_instances",
     "set_desired_capacity"}

\* the invocation in slot h has issued a remediation call
Remediated(h) ==
    \E n \in 1 .. Len(cycle[h].calls) : cycle[h].calls[n].op \in RemediationCalls

\* C3: whenever the decision engine's skip condition holds for the inputs of an
\* auto-heal cycle (skip_recovery true, score below 10, or classification
\* OS-level Failure or Disk Corruption), the cycle issues no deregister, repair
\* automation or termination and records no repair or replace action.
C3_SkipConditionEndsSkipped ==
    \A h \in Handlers :
        (/\ cycle[h].pc # "idle"
         /\ ~Falsy(cycle[h].instance_id)
         /\ SkipCondition(cycle[h].classification, cycle[h].diagnostic_score,
                          cycle[h].instance_config)) =>
            /\ ~Remediated(h)
            /\ ~cycle[h].recorded

(***************************************************************************)
(* Claims about the classification, checked under SpecClassify.            *)
(***************************************************************************)
Classified == scoreOut.fn = "_classify_failure"

\* the label of each flag but unknown_state
FlagLabel ==
    [k \in ClassifyKeys \ {"unknown_state"} |->
        IF k = "application_failure" THEN "Application Failure"
        ELSE IF k = "disk_corruption" THEN "Disk Corruption"
        ELSE IF k = "os_level_failure" THEN "OS-level Failure"
        ELSE IF k = "network_degradation" THEN "Network Degradation"
        ELSE IF k = "agent_failure" THEN "Agent Failure"
        ELSE "Resource Bottleneck"]

\* the positions in the fixed order of the labelled flags a report sets
SetPositions(report) ==
    {i \in DOMAIN ClassifyOrder :
        /\ ClassifyOrder[i] # "unknown_state"
        /\ ClassifyOrder[i] \in DOMAIN report
        /\ report[ClassifyOrder[i]]}

\* C11: _classify_failure returns the label of the first flag set in the
\* order application_failure, disk_corruption, os_level_failure,
\* network_degradation, agent_failure, resource_bottleneck, whatever later
\* flags are set, and 'Unknown State' when only unknown_state or no flag is set.
C11_FirstFlagWins ==
    Classified =>
        LET set == SetPositions(scoreIn) IN
        IF set = {} THEN scoreOut.value = "Unknown State"
        ELSE \E i \in set :
                /\ \A j \in set : i <= j
                /\ scoreOut.value = FlagLabel[ClassifyOrder[i]]

\* a report that sets os_level_failure, disk_corruption and unknown_state
\* but not application_failure is classified by the earliest of them
C11_Witness ==
    /\ Classified
    /\ Get(scoreIn, "os_level_failure", FALSE)
    /\ Get(scoreIn, "disk_corruption", FALSE)
    /\ Get(scoreIn, "unknown_state", FALSE)
    /\ ~Get(scoreIn, "application_failure", FALSE)
    /\ scoreOut.value = "Disk Corruption"

(***************************************************************************)
(* Claims about the target monitor, checked under SpecMonitor.             *)
(***************************************************************************)
\* the window of an (instance, target group) pair: its most recent
\* observations, at most 10, newest first
PairWindow(table, target_group_arn, instance_id) ==
    Limit(NewestFirst(SamplesOf(table, target_group_arn, instance_id)), 10)

\* C13: the flapping verdict of an (instance, target group) pair is true if
\* and only if the window of its most recent observations (at most 10) holds
\* at least 6 samples and at least 3 adjacent samples differ in state (here:
\* whenever the check could read the table).
C13_FlappingIffWindow ==
    (monitor.pc = "done" /\ monitor.query = "ok") =>
        LET window == PairWindow(healthTable, monitor.target_group_arn,
                                 monitor.instance_id)
        IN  monitor.flapping <=> (Len(window) >= 6 /\ StateChanges(window) >= 3)

(***************************************************************************)
(* Claims about the diagnostics handler, checked under SpecDiagnostics.    *)
(***************************************************************************)
\* the condition of the transition from Diagnosing to Deciding
TriggerCondition(score, classification) ==
    \/ score < 70
    \/ classification = "Application Failure"
    \/ classification = "OS-level Failure"
    \/ classification = "Disk Corruption"

\* the handler has put the auto-heal trigger on the event bus
TriggerPut == \E i \in DOMAIN diag.calls : diag.calls[i].op = "put_events"

\* C14: after a diagnostic run the handler emits the auto-heal trigger if and
\* only if diagnostic_score < 70 or the classification is Application
\* Failure, OS-level Failure or Disk Corruption: the trigger is put on the
\* bus only then, an invocation that returns has put it whenever the
\* condition holds, and a delivered trigger carries such a score or label.
C14_TriggerIffCondition ==
    /\ TriggerPut => TriggerCondition(diag.diagnostic_score, diag.classification)
    /\ (diag.pc = "done" /\ diag.response = "200 result") =>
          (TriggerPut <=> TriggerCondition(diag.diagnostic_score, diag.classification))
    /\ \A i \in DOMAIN diag.triggered :
          TriggerCondition(diag.triggered[i].diagnostic_score,
                           diag.triggered[i].classification)

\* a run that found an application failure has delivered the trigger
C14_Witness ==
    /\ diag.pc = "done"
    /\ diag.response = "200 result"
    /\ diag.classification = "Application Failure"
    /\ diag.triggered # <<>>

\* the newest action record of the instance is younger than the cooldown
YoungRecord(table, clock, instance_id, config) ==
    \E i \in DOMAIN table :
        /\ table[i].InstanceId = instance_id
        /\ \A j \in DOMAIN table :
              table[j].InstanceId = instance_id => table[j].Timestamp <= table[i].Timestamp
        /\ clock - table[i].Timestamp < Get(config, "cooldown_minutes", 15)

\* C20: for an instance whose newest action record is younger than its
\* cooldown, a detected issue starts no diagnostic run: no probe is executed
\* and no diagnostic report is stored.
C20_CooldownBeforeDiagnosing ==
    (/\ diag.pc # "idle"
     /\ ~Falsy(diag.instance_id)
     /\ YoungRecord(autoHealTable, now, diag.instance_id,
                    Get(configTable, diag.instance_id, EmptyDict)))
    => (diag.calls = <<>> /\ ~diag.stored)

(***************************************************************************)
(* Claims about the verify handler and the notifier, checked under         *)
(* SpecVerify.                                                             *)
(***************************************************************************)
ChecksRun == DOMAIN verify.verification_result.checks = CheckNames

\* all five checks have passed
AllFivePassed ==
    /\ ChecksRun
    /\ \A k \in CheckNames : verify.verification_result.checks[k].passed

\* the handler has asked the load balancer to register the instance
Reregistered == \E i \in DOMAIN verify.calls : verify.calls[i].op = "register_targets"

\* C15: the verify handler re-registers the instance if and only if all five
\* verification checks passed: it asks for the registration only then, an
\* invocation that returns has asked for it whenever they all passed, and
\* all_checks_passed is true exactly when failed_checks is empty, which is
\* exactly when no check failed.
C15_ReregisterIffAllPassed ==
    /\ Reregistered => AllFivePassed
    /\ (verify.pc = "done" /\ verify.response = "200 result") =>
          (Reregistered <=> AllFivePassed)
    /\ ChecksRun =>
          /\ verify.verification_result.all_checks_passed
                <=> (verify.verification_result.failed_checks = <<>>)
          /\ verify.verification_result.all_checks_passed <=> AllFivePassed

\* an invocation whose load-balancer simulation alone failed has returned
\* without re-registering
C15_Witness ==
    /\ verify.pc = "done"
    /\ verify.response = "200 result"
    /\ verify.verification_result.failed_checks = <<"lb_health_simulation">>
    /\ ~Reregistered

\* C18: no failure of a collaborator leaves a handler as an exception: the
\* diagnostics, auto-heal and verify handlers always return a result.
C18_NoExceptionLeavesHandler ==
    /\ verify.response # "raised"
    /\ diag.response # "raised"
    /\ \A h \in Handlers : cycle[h].response # "raised"

\* C19: a notification that cannot be delivered is never fatal.  A step in
\* which the SNS publish fails ends the verify invocation with its result
\* and changes neither the stored verification result nor the
\* re-registration made; a step in which the Slack post fails ends the
\* notifier with a result and leaves the verify handler's state alone.
C19_NotificationFailureNotFatal ==
    [][/\ (verify'.notification = "failed" /\ verify.notification # "failed") =>
             /\ verify'.response = "200 result"
             /\ verificationTable' = verificationTable
             /\ verify'.stored = verify.stored
             /\ verify'.verification_result = verify.verification_result
             /\ verify'.calls = verify.calls
       /\ (Len(slack'.posts) > Len(slack.posts)
             /\ slack'.posts[Len(slack'.posts)] = "failed") =>
             /\ slack'.pc = "done"
             /\ slack'.response = "500 Error"
             /\ verificationTable' = verificationTable
             /\ verify' = verify]_vars

\* the publish failed after the result was stored and the instance was
\* re-registered
C19_Witness ==
    /\ verify.pc = "done"
    /\ verify.notification = "failed"
    /\ verify.stored
    /\ Reregistered

(***************************************************************************)
(* Claims about the cooldown of the auto-heal handler, checked under Spec. *)
(***************************************************************************)
\* the step of an invocation in which it has read the audit table for the
\* cooldown while the newest record of its instance was younger than the
\* cooldown of the config it holds
CooldownCheckedYoung(h) ==
    /\ cycle[h].pc = "cooldown"
    /\ cycle'[h].pc # "cooldown"
    /\ cycle'[h].cooldown_query = "ok"
    /\ YoungRecord(autoHealTable, now, cycle[h].instance_id, cycle[h].instance_config)

\* C16: when the newest action record of an instance is younger than its
\* cooldown (cooldown_minutes of the instance config, default 15), an
\* auto-heal invocation for it that reads the record is suppressed: it ends
\* there, having issued no deregistration, repair automation, termination or
\* capacity change, written no action record and triggered no verification.
C16_CooldownSuppresses ==
    [][\A h \in Handlers :
          CooldownCheckedYoung(h) =>
             /\ cycle'[h].pc = "done"
             /\ cycle'[h].response = "200 Instance in cooldown period"
             /\ cycle'[h].calls = <<>>
             /\ cycle'[h].result = NoResult
             /\ ~cycle'[h].recorded
             /\ cycle'[h].verification = <<>>
             /\ autoHealTable' = autoHealTable]_vars

\* an invocation was suppressed ten minutes after an action on its instance
\* whose cooldown is the default
C16_Witness ==
    \E h \in Handlers :
        /\ cycle[h].response = "200 Instance in cooldown period"
        /\ cycle[h].cooldown_query = "ok"
        /\ cycle[h].instance_config = EmptyDict
        /\ now = 10
        /\ RecordsOf(autoHealTable, cycle[h].instance_id) # <<>>
        /\ cycle[h].calls = <<>>

(***************************************************************************)
(* Claims about all three handlers, checked under SpecHandlers.            *)
(***************************************************************************)
\* a dict holds an instance id
HasInstanceId(d) == "instance_id" \in DOMAIN d /\ ~Falsy(d["instance_id"])

\* neither the event nor its detail holds an instance id
NoInstanceId(event) ==
    /\ ~HasInstanceId(event)
    /\ ~("detail" \in DOMAIN event /\ HasInstanceId(event["detail"]))

\* the invocation returned status 400 and had called no collaborator
Rejected(invocation) ==
    /\ invocation.pc = "done"
    /\ invocation.response = "400 Missing instance_id"
    /\ invocation.calls = <<>>

ReadAndRecorded(h) == cycle[h].cooldown_query = "ok" /\ cycle[h].recorded

\* C21 as stated: two auto-heal invocations for the same instance, under every
\* interleaving of their steps, execute at most one remediation within one
\* cooldown window, even when every read and write of the audit table
\* succeeds.
C21_AtMostOneRemediation ==
    ~ \E h, g \in RaceHandlers :
          /\ h # g
          /\ cycle[h].instance_id = cycle[g].instance_id
          /\ Remediated(h) /\ ReadAndRecorded(h)
          /\ Remediated(g) /\ ReadAndRecorded(g)

\* C21 amended: an invocation whose cooldown read succeeds after the other
\* invocation for the same instance wrote its action record is suppressed and
\* executes no remediation; nothing orders a cooldown read after the other
\* invocation's write.
C21_SuppressedAfterRecord ==
    [][\A h, g \in RaceHandlers :
          (/\ h # g
           /\ cycle[g].recorded
           /\ cycle[g].instance_id = cycle[h].instance_id
           /\ cycle[h].pc = "cooldown"
           /\ cycle'[h].pc # "cooldown"
           /\ cycle'[h].cooldown_query = "ok") =>
              /\ cycle'[h].response = "200 Instance in cooldown period"
              /\ ~Remediated(h)'
              /\ autoHealTable' = autoHealTable]_vars

\* the second invocation was suppressed by the record of the first, which had
\* remediated
C21_Witness ==
    \E h, g \in RaceHandlers :
        /\ h # g
        /\ Remediated(g) /\ cycle[g].recorded
        /\ cycle[h].instance_id = cycle[g].instance_id
        /\ cycle[h].cooldown_query = "ok"
        /\ cycle[h].response = "200 Instance in cooldown period"
        /\ ~Remediated(h)

(***************************************************************************)
(* Claims about the repair-attempt count, checked under SpecHandlers.      *)
(***************************************************************************)
\* the number of records with action 'repair' the audit table holds for an
\* instance id
RepairRecords(table, instance_id) ==
    Cardinality({n \in DOMAIN table : /\ table[n].InstanceId = instance_id
                                      /\ table[n].Action = "repair"})

RecordedInstances == {"i-1", "i-2"}

RemediationReturned(h) ==
    /\ cycle[h].pc = "done"
    /\ cycle[h].response = "200 result"
    /\ cycle[h].result.action \in {"repair", "replace"}

\* C23: every cycle that entered Repairing or Replacing reaches Verifying: by
\* the time the cycle has returned, a verification was triggered for its
\* instance.
C23_RemediationReachesVerifying ==
    \A h \in Handlers :
        RemediationReturned(h) =>
            /\ cycle[h].verification # <<>>
            /\ cycle[h].verification[1].instance_id = cycle[h].instance_id

(***************************************************************************)
(* Claims about the verification checks, checked under SpecVerify.         *)
(***************************************************************************)
\* check k is listed in failed_checks
ListedFailed(k) ==
    \E n \in DOMAIN verify.verification_result.failed_checks :
        verify.verification_result.failed_checks[n] = k

\* C24: a verification check whose probe could not execute is treated as
\* failed, for each of the five checks: it is listed in failed_checks,
\* all_checks_passed is false and the instance is not re-registered.
C24_UnexecutedCheckFails ==
    \A k \in CheckNames :
        (ChecksRun /\ verify.probes[k] = "raised") =>
            /\ ListedFailed(k)
            /\ ~verify.verification_result.all_checks_passed
            /\ ~Reregistered

(***************************************************************************)
(* Claims about failed reads of the stores, checked under Spec.            *)
(***************************************************************************)
\* the newest action record of the instance is younger than the minutes given
NewestYounger(table, clock, instance_id, minutes) ==
    \E n \in DOMAIN table :
        /\ table[n].InstanceId = instance_id
        /\ \A m \in DOMAIN table : table[m].InstanceId = instance_id => m <= n
        /\ clock - table[n].Timestamp < minutes

\* C25: a failed read of the instance config leaves the config empty, so
\* recovery is not skipped and the cooldown is 15 minutes; a failed cooldown
\* query yields 'not in cooldown'; a failed attempts query yields 0; after
\* each the cycle goes on to its next stage and to the repair or replacement
\* that a count of 0 selects.
C25_ReadFailureDefaults ==
    [][\A h \in Handlers :
          /\ (cycle[h].pc = "get_config" /\ cycle'[h].config_read = "fails") =>
                /\ cycle'[h].instance_config = EmptyDict
                /\ cycle'[h].pc = "cooldown"
          /\ (/\ cycle[h].pc = "cooldown"
              /\ cycle[h].config_read = "fails"
              /\ cycle'[h].cooldown_query = "ok") =>
                cycle'[h].in_cooldown =
                    NewestYounger(autoHealTable, now, cycle[h].instance_id, 15)
          /\ (cycle[h].pc = "cooldown" /\ cycle'[h].cooldown_query = "fails") =>
                /\ ~cycle'[h].in_cooldown
                /\ cycle'[h].pc = "attempts"
          /\ (cycle[h].pc = "attempts" /\ cycle'[h].attempts_query = "fails") =>
                /\ cycle'[h].repair_attempts = 0
                /\ cycle'[h].pc = IF cycle[h].diagnostic_score < 30
                                  THEN "replace_get_asg" ELSE "repair_deregister"]_vars

\* all three reads of a cycle failed for an instance whose config item says
\* skip_recovery and which was repaired twice within the last ten minutes, and
\* the cycle started a third repair
C25_Witness ==
    \E h \in Handlers :
        /\ cycle[h].config_read = "fails"
        /\ cycle[h].cooldown_query = "fails"
        /\ cycle[h].attempts_query = "fails"
        /\ Get(configTable[cycle[h].instance_id], "skip_recovery", FALSE)
        /\ cycle[h].pc = "record"
        /\ RepairRecords(autoHealTable, cycle[h].instance_id) = 2
        /\ NewestYounger(autoHealTable, now, cycle[h].instance_id, 15)
        /\ cycle[h].result.action = "repair"
        /\ cycle[h].result.success

(***************************************************************************)
(* Claims about a probe run that gathered nothing, checked under           *)
(* SpecDiagnostics.                                                        *)
(***************************************************************************)
\* the probe run has returned without any signal: the agent is not registered
\* for the instance, or the run raised before any probe result
NoSignalGathered ==
    /\ "ssm_available" \in DOMAIN diag.diagnostics
    /\ ~diag.diagnostics["ssm_available"]

\* C26: when no diagnostic signal could be gathered at all (the agent is not
\* registered for the instance, or the probe run raised before any probe
\* result), the diagnostics stage does not crash, applies no score penalty
\* and classifies the report as Unknown State.
C26_NoSignalIsUnknownState ==
    NoSignalGathered =>
        /\ diag.response # "raised"
        /\ diag.diagnostic_score = 100
        /\ diag.classification = "Unknown State"

TimesIssued(h, op) ==
    Cardinality({n \in DOMAIN cycle[h].calls : cycle[h].calls[n].op = op})

\* the step log of the cycle in slot h holds the step with the status
StepLogged(h, name, status) ==
    \E n \in DOMAIN cycle[h].result.steps :
        cycle[h].result.steps[n] = Step(name, status)

\* C28: within one cycle each remediation call (deregister, start of the
\* repair automation, terminate, set desired capacity) is issued at most once;
\* a deregistration that failed is in the step log with status 'failed', and
\* the cycle went on to start the repair automation or, for a replacement, to
\* terminate the instance (which only a failed read of the group's capacity
\* prevents).
C28_NoRetryAndBestEffort ==
    \A h \in Handlers :
        /\ \A op \in RemediationCalls : TimesIssued(h, op) <= 1
        /\ TimesIssued(h, "deregister_targets") =
              Cardinality({n \in DOMAIN cycle[h].result.steps :
                              cycle[h].result.steps[n].step = "deregister_target"})
        /\ (RemediationReturned(h) /\ StepLogged(h, "deregister_target", "failed")) =>
              IF cycle[h].result.action = "repair"
              THEN TimesIssued(h, "start_automation_execution") = 1
              ELSE \/ TimesIssued(h, "terminate_instances") = 1
                   \/ cycle[h].result.error = "describe_auto_scaling_groups"

\* a replacement whose deregistration failed went on to terminate the
\* instance and to raise the desired capacity, each call issued once
C28_Witness ==
    \E h \in Handlers :
        /\ RemediationReturned(h)
        /\ cycle[h].result.action = "replace"
        /\ StepLogged(h, "deregister_target", "failed")
        /\ StepLogged(h, "terminate_instance", "success")
        /\ TimesIssued(h, "deregister_targets") = 1
        /\ TimesIssued(h, "terminate_instances") = 1
        /\ TimesIssued(h, "set_desired_capacity") = 1
        /\ cycle[h].result.success

\* the remediation of the cycle in slot h has returned its result
RemediationDone(h) ==
    /\ cycle[h].pc \in {"record", "verify", "done"}
    /\ cycle[h].result.action \in {"repair", "replace"}

\* the load-bearing step of the remediation succeeded
LoadBearingSucceeded(h) ==
    IF cycle[h].result.action = "repair"
    THEN StepLogged(h, "ssm_repair", "initiated")
    ELSE StepLogged(h, "terminate_instance", "success")

\* C29: the remediation result is a success exactly when its load-bearing step
\* succeeded: the repair automation was started, or the termination call of a
\* replacement succeeded; a deregistration or a capacity increase that failed
\* does not make the result a failure.
C29_SuccessIffLoadBearing ==
    \A h \in Handlers :
        RemediationDone(h) => (cycle[h].result.success <=> LoadBearingSucceeded(h))

\* a replacement succeeded although its deregistration and its capacity
\* increase both failed
C29_Witness ==
    \E h \in Handlers :
        /\ RemediationDone(h)
        /\ cycle[h].result.action = "replace"
        /\ cycle[h].result.success
        /\ StepLogged(h, "deregister_target", "failed")
        /\ TimesIssued(h, "set_desired_capacity") = 1
        /\ ~StepLogged(h, "increase_capacity", "success")

\* C30: in a repair and in a replacement the deregistration from the load
\* balancer is attempted first: no cycle issues the start of the repair
\* automation or the termination of the instance without having issued a
\* deregister call before it.
C30_DeregisterFirst ==
    \A h \in Handlers :
        \A n \in DOMAIN cycle[h].calls :
            cycle[h].calls[n].op \in {"start_automation_execution", "terminate_instances"} =>
                \E m \in 1 .. (n - 1) : cycle[h].calls[m].op = "deregister_targets"

\* a repair issued the deregistration and then the start of the automation,
\* and a replacement, in another cycle before it, had done the same with the
\* termination
C30_Witness ==
    \E h \in Handlers :
        /\ cycle[h].result.action = "repair"
        /\ cycle[h].calls = <<Call("deregister_targets"), Call("start_automation_execution")>>
        /\ \E n \in DOMAIN autoHealTable : autoHealTable[n].Action = "replace"

(***************************************************************************)
(* Claims about the observations and the issues of the target monitor,     *)
(* checked under SpecObserve and SpecAggregate.                            *)
(***************************************************************************)
\* the observation a pass stores for the target it has just examined
Observation(m) ==
    [InstanceId |-> m.instance_id, TargetGroupArn |-> m.target_group_arn,
     State |-> m.state]

\* C31: every examination of a target whose write reaches the store appends
\* exactly one observation of that target in the state reported, whatever
\* the state, the reason and the issues found, and leaves every observation
\* stored before as it was; a write the store refuses leaves the table as it
\* was; and the flapping verdict of the examination counts the observation
\* just appended.
C31_ObservationAppended ==
    [][/\ monitor'.put = "ok" => healthTable' = Append(healthTable, Observation(monitor'))
       /\ monitor'.put = "fails" => healthTable' = healthTable
       /\ monitor'.query = "ok" =>
             LET window == PairWindow(healthTable', monitor'.target_group_arn,
                                      monitor'.instance_id)
             IN  monitor'.flapping <=>
                     (Len(window) >= 6 /\ StateChanges(window) >= 3)]_vars

\* a healthy target with no state-based issue was recorded, and the sixth
\* observation, the one just appended, made its verdict flapping
C31_Witness ==
    /\ monitor.pc = "done"
    /\ monitor.put = "ok"
    /\ monitor.state = "healthy"
    /\ monitor.reason = ""
    /\ Len(healthTable) = 6
    /\ healthTable[6] = Observation(monitor)
    /\ monitor.flapping

\* C32: every examined target whose state and reason satisfy a rule yields
\* that rule's issue: unhealthy_target when unhealthy, unused_target when
\* unused with a reason containing NotInUse, degraded_target when draining
\* or its reason contains degraded, and flapping_target exactly when the
\* verdict is flapping.
C32_EveryRuleYieldsItsIssue ==
    monitor.pc = "done" =>
        LET types == {monitor.issues[i] : i \in DOMAIN monitor.issues}
        IN  /\ monitor.state = "unhealthy" => "unhealthy_target" \in types
            /\ (monitor.state = "unused" /\ ContainsNotInUse(monitor.reason))
                   => "unused_target" \in types
            /\ (monitor.state = "draining" \/ LowerContainsDegraded(monitor.reason))
                   => "degraded_target" \in types
            /\ monitor.flapping <=> "flapping_target" \in types

\* C33: the aggregate check whose metric read succeeded yields
\* high_unhealthy_percentage if and only if the metric returned datapoints,
\* the group has targets and the greatest unhealthy count is more than half
\* of them; with exactly half, no datapoints or no targets it yields no
\* issue, and in every case it returns to the pass (what is raised is
\* caught).
C33_AggregateIffAboveHalf ==
    (aggregate.pc = "done" /\ aggregate.read = "ok") =>
        LET above == /\ aggregate.datapoints # <<>>
                     /\ aggregate.total_targets > 0
                     /\ \E i \in DOMAIN aggregate.datapoints :
                           2 * aggregate.datapoints[i]["Maximum"]
                               > aggregate.total_targets
        IN  /\ above => aggregate.issues = <<"high_unhealthy_percentage">>
            /\ ~above => aggregate.issues = <<>>
            /\ aggregate.exception \in {"none", "ZeroDivisionError"}

\* a group of four targets with two unhealthy at most: exactly 50%, no issue
C33_Witness ==
    /\ aggregate.pc = "done"
    /\ aggregate.read = "ok"
    /\ aggregate.total_targets = 4
    /\ Len(aggregate.datapoints) = 2
    /\ aggregate.datapoints[1]["Maximum"] = 2
    /\ aggregate.datapoints[2]["Maximum"] = 1
    /\ aggregate.issues = <<>>

(***************************************************************************)
(* Claims about cycles of different instances, checked under SpecPair.     *)
(***************************************************************************)
\* the audit table as it would be had no cycle of instance_id ever written
Without(table, instance_id) == SelectSeq(table, LAMBDA r : r.InstanceId # instance_id)

\* C34: the cooldown verdict, the attempt count and the action chosen by a
\* cycle of i-1 whose reads succeed are those the same reads give on the
\* audit table without the records of i-2, whether the cycle of i-2 wrote
\* them before the cycle of i-1 began or between its steps.
C34_OtherInstanceNeverCounts ==
    [][LET c == cycle["h1"]
           d == cycle'["h1"]
           own == Without(autoHealTable, "i-2")
       IN  /\ (c.pc = "cooldown" /\ d.cooldown_query = "ok") =>
                  d.in_cooldown = _is_in_cooldown(own, now, "i-1", c.instance_config)
           /\ (c.pc = "attempts" /\ d.attempts_query = "ok") =>
                  /\ d.repair_attempts = _get_repair_attempts(own, "i-1")
                  /\ d.result.action =
                        IF should_replace_instance(c.diagnostic_score,
                                                   _get_repair_attempts(own, "i-1"))
                        THEN "replace" ELSE "repair"]_vars

\* the cycle of i-2 has written its record, at the time the cycle of i-1
\* reads; the cycle of i-1 found no cooldown, counted its own one repair and
\* chose to repair
C34_Witness ==
    /\ cycle["h2"].recorded
    /\ RepairRecords(autoHealTable, "i-2") = 1
    /\ cycle["h1"].pc \notin {"idle", "done"}
    /\ cycle["h1"].cooldown_query = "ok"
    /\ ~cycle["h1"].in_cooldown
    /\ cycle["h1"].attempts_query = "ok"
    /\ cycle["h1"].repair_attempts = 1
    /\ cycle["h1"].result.action = "repair"
    /\ ~cycle["h1"].recorded

(***************************************************************************)
(* Claims about the action record of a cycle, checked under Spec.          *)
(***************************************************************************)
\* the invocation went past the skip guard and the cooldown guard (line 58)
PassedGuards(c) == c.attempts_query # "none"

\* the remediation the invocation attempts: the branch taken at line 62
AttemptedAction(c) ==
    IF should_replace_instance(c.diagnostic_score, c.repair_attempts)
    THEN "replace" ELSE "repair"

\* C35: an invocation that passed the skip and cooldown guards and whose
\* remediation returned makes one write of an action record before it
\* returns and before it triggers verification; when the store accepts the
\* write, the table gains exactly one record, of that instance, with the
\* action attempted, whether the remediation succeeded or not; the table
\* changes at no other step and every record stored before stays as it was.
C35_OneRecordOfTheAttempt ==
    [][/\ Len(autoHealTable') >= Len(autoHealTable)
       /\ SubSeq(autoHealTable', 1, Len(autoHealTable)) = autoHealTable
       /\ autoHealTable' # autoHealTable =>
             \E h \in Handlers : cycle[h].pc = "record" /\ cycle[h].record_put = "none"
       /\ \A h \in Handlers :
             LET c == cycle[h]
                 d == cycle'[h]
             IN  /\ (c.pc = "record" /\ d.record_put = "ok") =>
                        autoHealTable' = Append(autoHealTable,
                            [InstanceId |-> c.instance_id,
                             Action |-> AttemptedAction(c), Timestamp |-> now])
                 /\ (d.pc = "done" /\ PassedGuards(d) /\ d.response # "raised") =>
                        d.record_put # "none"
                 /\ d.verification # c.verification => c.record_put # "none"]_vars

\* a replacement that failed has been recorded as a replace, and no
\* verification was triggered
C35_Witness ==
    \E h \in Handlers :
        /\ cycle[h].pc = "done"
        /\ PassedGuards(cycle[h])
        /\ cycle[h].record_put = "ok"
        /\ ~cycle[h].result.success
        /\ cycle[h].verification = <<>>
        /\ autoHealTable # <<>>
        /\ autoHealTable[Len(autoHealTable)] =
               [InstanceId |-> cycle[h].instance_id, Action |-> "replace", Timestamp |-> now]

(***************************************************************************)
(* Claims about the values handed from stage to stage, checked under Spec. *)
(***************************************************************************)
\* the invocation in slot h was delivered by the event bus: what the
\* diagnostics stage published lies under detail
Delivered(h) == cycle[h].pc # "idle" /\ "detail" \in DOMAIN cycle[h].event

\* C36: in a cycle triggered by an event of the diagnostics stage, the
\* diagnostic score, the classification and the target group the auto-heal
\* handler uses are the ones published in that event, and none of them is
\* the default (100, Unknown State, no target group).
C36_PublishedValuesUsed ==
    \A h \in Handlers :
        Delivered(h) =>
            LET published == cycle[h].event["detail"]
            IN  /\ cycle[h].diagnostic_score = published["diagnostic_score"]
                /\ cycle[h].classification = published["classification"]
                /\ cycle[h].target_group_arn = published["target_group_arn"]

(***************************************************************************)
(* Claims about the escalation from repair to replace, checked under Spec  *)
(* (one handler slot: the cycles of the instance run one after another).   *)
(***************************************************************************)
\* C37: a cycle whose attempts query succeeded and found two repair records
\* of its instance chooses replace, whatever its score; and a cycle whose
\* attempts query succeeded never writes a third repair record for its
\* instance.
C37_AtMostTwoRepairs ==
    [][\A h \in Handlers :
          LET c == cycle[h]
              d == cycle'[h]
          IN  /\ (/\ c.pc = "attempts"
                  /\ d.attempts_query = "ok"
                  /\ RepairRecords(autoHealTable, c.instance_id) >= 2) =>
                     d.result.action = "replace"
              /\ (/\ c.pc = "record"
                  /\ c.attempts_query = "ok"
                  /\ c.result.action = "repair") =>
                     RepairRecords(autoHealTable', c.instance_id) <= 2]_vars

\* two repairs of the instance are on record and the third cycle, its score
\* 50 and its reads successful, has recorded a replace
C37_Witness ==
    \E h \in Handlers :
        /\ cycle[h].pc = "done"
        /\ cycle[h].diagnostic_score = 50
        /\ cycle[h].cooldown_query = "ok"
        /\ cycle[h].attempts_query = "ok"
        /\ cycle[h].repair_attempts = 2
        /\ cycle[h].record_put = "ok"
        /\ RepairRecords(autoHealTable, cycle[h].instance_id) = 2
        /\ autoHealTable[Len(autoHealTable)].Action = "replace"

(***************************************************************************)
(* Claims about the replacement of an instance, checked under Spec.        *)
(***************************************************************************)
\* the positions in c.calls of the calls of an operation
CallsOf(c, op) == {n \in DOMAIN c.calls : c.calls[n].op = op}

\* describe_auto_scaling_groups has returned the group's sizes
CapacityRead(c) == c.asg # IdleCycle.asg

\* C38: a replacement issues terminate_instances only after the group was
\* found and its capacity read; when no group is found or the capacity read
\* raises there is no terminate call, no capacity change and the result is
\* not a success; set_desired_capacity is called at most once, only after a
\* termination that succeeded, only when the desired capacity read was at
\* most the minimum size, and with that desired capacity plus 1.
C38_TerminateOnlyWithCapacityRead ==
    \A h \in Handlers :
        LET c == cycle[h]
        IN  c.result.action = "replace" =>
                /\ CallsOf(c, "terminate_instances") # {} =>
                       /\ c.result.error = ""
                       /\ CapacityRead(c)
                /\ c.result.error # "" =>
                       /\ CallsOf(c, "terminate_instances") = {}
                       /\ CallsOf(c, "set_desired_capacity") = {}
                       /\ ~c.result.success
                /\ Cardinality(CallsOf(c, "set_desired_capacity")) <= 1
                /\ \A n \in CallsOf(c, "set_desired_capacity") :
                       /\ StepLogged(h, "terminate_instance", "success")
                       /\ \E m \in CallsOf(c, "terminate_instances") : m < n
                       /\ c.asg.DesiredCapacity <= c.asg.MinSize
                       /\ c.calls[n].DesiredCapacity = c.asg.DesiredCapacity + 1

\* a group at its minimum size of 1: the instance was terminated and the
\* desired capacity set to 2
C38_Witness ==
    \E h \in Handlers :
        /\ cycle[h].result.action = "replace"
        /\ cycle[h].asg = [MinSize |-> 1, DesiredCapacity |-> 1]
        /\ StepLogged(h, "terminate_instance", "success")
        /\ \E n \in CallsOf(cycle[h], "set_desired_capacity") :
               cycle[h].calls[n].DesiredCapacity = 2
        /\ cycle[h].result.success

(***************************************************************************)
(* Claims about the two copies of the repair/replace rule, checked under   *)
(* Spec.                                                                   *)
(***************************************************************************)
\* make_decision on the inputs of the cycle c
EngineDecision(c) ==
    make_decision(c.instance_id, c.classification, c.diagnostic_score,
                  c.repair_attempts, c.instance_config)

\* C39: for the score and the attempt count of every cycle that has chosen
\* its branch, the decision engine's should_replace_instance and the copy
\* the handler imports return the same, and when make_decision does not skip
\* on the cycle's inputs its action is the branch the handler chose.
C39_HandlerChoiceIsEngineAction ==
    \A h \in Handlers :
        LET c == cycle[h]
        IN  PassedGuards(c) =>
                /\ engine_should_replace_instance(c.diagnostic_score, c.repair_attempts)
                       = should_replace_instance(c.diagnostic_score, c.repair_attempts)
                /\ ~EngineDecision(c).skip => c.result.action = EngineDecision(c).action

\* a cycle with score 25 and no earlier repair: make_decision does not skip
\* and the handler replaces
C39_Witness ==
    \E h \in Handlers :
        /\ PassedGuards(cycle[h])
        /\ cycle[h].diagnostic_score = 25
        /\ cycle[h].repair_attempts = 0
        /\ ~EngineDecision(cycle[h]).skip
        /\ EngineDecision(cycle[h]).action = "replace"
        /\ cycle[h].result.action = "replace"

====
